---------------------------- MODULE Spec2Model ----------------------------
(***************************************************************************)
(* Model of esptool.py (ESP8266 ROM bootloader utility): the SLIP framing  *)
(* layer, the command engine, the connect handshake, the flash-begin       *)
(* erase-size computation, the primitive operations with their status      *)
(* checks, the firmware image codec, make_image, and the sequences of      *)
(* calls load_ram, write_flash and erase_flash make.                       *)
(*                                                                         *)
(* Byte strings are sequences of integers 0..255.  The serial port's       *)
(* input is a sequence of bytes; a read(1) on an empty input is a timeout  *)
(* and delivers the empty string.                                          *)
(***************************************************************************)
EXTENDS Integers, Sequences, FiniteSets, TLC

VARIABLES
    \* framing layer
    packet,       \* argument of write()
    wire,         \* bytes last written to the port by write()
    inbuf,        \* bytes the device has sent and the host has not yet read
    rd_pc,        \* position of read(): "idle", "loop", "ret", "raise"
    rd_len,       \* read()'s length argument
    rd_b,         \* read()'s accumulator b
    rd_err,       \* message of the error read() raised
    rd_last,      \* the bytes the last loop iteration took from the port
    rd_timeouts,  \* port reads of this read() call that delivered no byte
    \* command engine
    cmd_pc,       \* "idle", "recv", "ret", "raise", "hang"
    cmd_op,       \* op argument of command(), None when absent
    retries,      \* command()'s local retries
    cmd_ret,      \* (val, body) returned by command()
    cmd_err,      \* message of the error command() raised
    last_resp,    \* (op_ret, val, body) of the last response received
    n_read,       \* well-formed responses received by this command() call
    n_mismatch,   \* of these, the ones whose opcode differed from op
    n_written,    \* request frames written by this command() call
    rx,           \* the port input receive_response() last ran on
    \* connect / sync
    con_pc,       \* "idle", "pulse", "flush", "sync", "ret", "raise", "hang"
    outer,        \* index of the outer loop of connect()
    inner,        \* index of the inner loop of connect()
    drained,      \* index of sync()'s drain loop
    syncs,        \* sync() calls made by connect()
    sync_fail,    \* of these, the ones that raised
    pulses,       \* reset pulses issued by connect()
    lines,        \* the setDTR / setRTS calls of the last reset pulse, in order
    timeout,      \* self._port.timeout, in milliseconds (None: blocking)
    \* primitive operations and the top level
    op_pc,        \* "idle", "wait", "ret", "raise", "exit"
    op_name,      \* the operation in progress
    op_ctx,       \* its caller: "main" or "get_mac"
    old_tmo,      \* flash_begin's local old_tmo
    tmo_at_call,  \* the timeout when the operation was called
    erase_in,     \* (_size, offset) given to flash_begin
    raised,       \* class of the exception in flight: "none", "FatalError", "Exception"
    exit_code,    \* the process's exit code once it ended, else None
    \* firmware image codec
    image,        \* the ESPFirmwareImage under construction
    file,         \* bytes of the file save() wrote
    parsed,       \* outcome of ESPFirmwareImage(filename)
    img_pc,       \* "build", "saved", "parsed"; "given", "loaded" for a file from elsewhere
    add_in,       \* (addr, data) given to the last add_segment call
    n_add,        \* add_segment calls made on the image
    \* load_ram, write_flash and erase_flash in main()
    xf_pc,        \* "idle", "loop" (in the loops), "tail" (after them), "done"
    xf_job,       \* the operation and its inputs
    xf_idx,       \* segments or files whose begin command was sent
    xf_data,      \* the rest of the segment or file being sent (data, image)
    xf_seq,       \* seq
    xf_todo,      \* the calls that remain after the loops
    xf_log        \* the requests sent and the responses the calls returned with

framingVars == <<packet, wire, inbuf, rd_pc, rd_len, rd_b, rd_err, rd_last, rd_timeouts>>
cmdVars == <<cmd_pc, cmd_op, retries, cmd_ret, cmd_err, last_resp, n_read, n_mismatch, n_written, rx>>
conVars == <<con_pc, outer, inner, drained, syncs, sync_fail, pulses, lines, timeout>>
opVars == <<op_pc, op_name, op_ctx, old_tmo, tmo_at_call, erase_in, raised, exit_code>>
imgVars == <<image, file, parsed, img_pc, add_in, n_add>>
xferVars == <<xf_pc, xf_job, xf_idx, xf_data, xf_seq, xf_todo, xf_log>>
vars == <<framingVars, cmdVars, conVars, opVars, imgVars, xferVars>>

\* Python's None where a number may stand as well (no opcode, no timeout, no exit yet)
None == -1

\* no value yet, where a tuple or record may stand as well
NoValue == <<>>

-----------------------------------------------------------------------------
(* Bounds of the model *)

\* longest packet / device byte stream enumerated for the framing layer
MaxLen == 3
\* most port timeouts one read() call is followed through
MaxTimeouts == 2

-----------------------------------------------------------------------------
(* Byte strings *)

SLIP_END == 192      \* '\xc0'
SLIP_ESC == 219      \* '\xdb'
SLIP_ESC_END == 220  \* '\xdc'
SLIP_ESC_ESC == 221  \* '\xdd'

\* the byte values enumerated in packets and device streams
FrameBytes == {1, SLIP_END, SLIP_ESC, SLIP_ESC_END, SLIP_ESC_ESC}

ByteStrings(S, n) == UNION {[1..k -> S] : k \in 0..n}

RECURSIVE Replace(_, _, _)
\* str.replace(old, new) for a one-byte old: every occurrence, left to right
\* (taken in halves, so that long strings evaluate in logarithmic depth)
Replace(s, old, new) ==
    IF s = <<>> THEN <<>>
    ELSE IF Len(s) = 1 THEN (IF s[1] = old THEN new ELSE s)
    ELSE LET h == Len(s) \div 2
         IN  Replace(SubSeq(s, 1, h), old, new) \o Replace(SubSeq(s, h + 1, Len(s)), old, new)

\* the escaping of write() with the two replace() calls in the other order
SlipEscapeSwapped(p) ==
    Replace(Replace(p, SLIP_END, <<SLIP_ESC, SLIP_ESC_END>>),
            SLIP_ESC, <<SLIP_ESC, SLIP_ESC_ESC>>)

\* the escaping of write() without the replace() of the escape byte
SlipEscapeEndOnly(p) == Replace(p, SLIP_END, <<SLIP_ESC, SLIP_ESC_END>>)

\* packet.replace('\xdb','\xdb\xdd').replace('\xc0','\xdb\xdc')
SlipEscape(p) ==
    Replace(Replace(p, SLIP_ESC, <<SLIP_ESC, SLIP_ESC_ESC>>),
            SLIP_END, <<SLIP_ESC, SLIP_ESC_END>>)

\* buf of write(): what goes to the port
WriteBuf(p) == <<SLIP_END>> \o SlipEscape(p) \o <<SLIP_END>>

\* one iteration of read()'s loop with the escape branch decoding nothing
ReadOnceNoEscape(buf) ==
    IF buf = <<>> THEN [kind |-> "timeout", byte |-> 0, took |-> <<>>, rest |-> <<>>]
    ELSE [kind |-> "byte", byte |-> Head(buf), took |-> <<Head(buf)>>, rest |-> Tail(buf)]

\* one iteration of read()'s loop on the port input buf:
\* kind "byte": b grows by byte; "timeout": the port gave '' and b is unchanged;
\* "raise": Invalid SLIP escape.  took: the bytes taken from the port.
ReadOnce(buf) ==
    IF buf = <<>>
    THEN [kind |-> "timeout", byte |-> 0, took |-> <<>>, rest |-> <<>>]
    ELSE IF Head(buf) = SLIP_ESC
    THEN IF Tail(buf) = <<>>
         THEN [kind |-> "raise", byte |-> 0, took |-> <<SLIP_ESC>>, rest |-> <<>>]
         ELSE LET c == buf[2]
                  rest == Tail(Tail(buf))
                  took == <<SLIP_ESC, c>>
              IN  IF c = SLIP_ESC_END
                  THEN [kind |-> "byte", byte |-> SLIP_END, took |-> took, rest |-> rest]
                  ELSE IF c = SLIP_ESC_ESC
                  THEN [kind |-> "byte", byte |-> SLIP_ESC, took |-> took, rest |-> rest]
                  ELSE [kind |-> "raise", byte |-> 0, took |-> took, rest |-> rest]
    ELSE [kind |-> "byte", byte |-> Head(buf), took |-> <<Head(buf)>>, rest |-> Tail(buf)]

RECURSIVE ReadFrom(_, _, _)
\* read(length) run to its end on a port whose whole remaining input is buf:
\* status "ok" (data returned), "raise" (Invalid SLIP escape) or "hang" (the
\* input ran out: every further port read times out and the loop never ends)
\* (the iterations are taken in two halves, the second going on where the
\* first stopped, so that long reads evaluate in logarithmic depth)
ReadFrom(buf, length, b) ==
    IF Len(b) >= length THEN [status |-> "ok", data |-> b, rest |-> buf]
    ELSE IF length - Len(b) = 1
    THEN LET r == ReadOnce(buf)
         IN  IF r.kind = "timeout" THEN [status |-> "hang", data |-> b, rest |-> <<>>]
             ELSE IF r.kind = "raise" THEN [status |-> "raise", data |-> b, rest |-> r.rest]
             ELSE [status |-> "ok", data |-> Append(b, r.byte), rest |-> r.rest]
    ELSE LET first == ReadFrom(buf, Len(b) + ((length - Len(b)) \div 2), b)
         IN  IF first.status # "ok" THEN first
             ELSE ReadFrom(first.rest, length, first.data)

Read(buf, length) == ReadFrom(buf, length, <<>>)

-----------------------------------------------------------------------------
(* struct.pack / struct.unpack, little-endian.  The 32-bit fields of the
   model take values below 2^31. *)

PackU16(x) == <<x % 256, (x \div 256) % 256>>

PackU32(x) == <<x % 256, (x \div 256) % 256, (x \div 65536) % 256, (x \div 16777216) % 256>>

UnpackU16(s) == s[1] + 256 * s[2]

UnpackU32(s) == s[1] + 256 * s[2] + 65536 * s[3] + 16777216 * s[4]

\* struct.pack('<IIII', a, b, c, d)
Pack4(a, b, c, d) == PackU32(a) \o PackU32(b) \o PackU32(c) \o PackU32(d)

RECURSIVE Xor(_, _)
\* a ^ b on non-negative integers
Xor(a, b) ==
    IF a = 0 THEN b
    ELSE IF b = 0 THEN a
    ELSE (((a % 2) + (b % 2)) % 2) + 2 * Xor(a \div 2, b \div 2)

ESP_FLASH_BEGIN == 2
ESP_FLASH_DATA == 3
ESP_FLASH_END == 4
ESP_MEM_BEGIN == 5
ESP_MEM_END == 6
ESP_MEM_DATA == 7
ESP_SYNC == 8
ESP_WRITE_REG == 9
ESP_READ_REG == 10
ESP_RAM_BLOCK == 6144
ESP_FLASH_BLOCK == 1024
ESP_IMAGE_MAGIC == 233
ESP_CHECKSUM_MAGIC == 239

RECURSIVE XorBytes(_)
\* the xor of all bytes of data, taken in halves (xor is associative) so that
\* long strings evaluate in logarithmic depth
XorBytes(data) ==
    IF data = <<>> THEN 0
    ELSE IF Len(data) = 1 THEN data[1]
    ELSE LET h == Len(data) \div 2
         IN  Xor(XorBytes(SubSeq(data, 1, h)), XorBytes(SubSeq(data, h + 1, Len(data))))

\* the checksum started from 0 whatever the seed
checksum_unseeded(data, state) == XorBytes(data)

\* ESPROM.checksum(data, state): for b in data: state ^= ord(b)
checksum(data, state) == Xor(state, XorBytes(data))

\* the request packet command() builds: struct.pack('<BBHI', 0x00, op, len(data), chk) + data
RequestPacket(op, data, chk) ==
    <<0, op>> \o PackU16(Len(data)) \o PackU32(chk) \o data

-----------------------------------------------------------------------------
(* receive_response *)

\* receive_response() without the test of the direction byte
ReceiveResponseAnyDirection(buf) ==
    LET bad(msg, rest) ==
            [status |-> "raise", err |-> msg, op_ret |-> 0, val |-> 0, body |-> <<>>, rest |-> rest]
        hung == [status |-> "hang", err |-> "", op_ret |-> 0, val |-> 0, body |-> <<>>, rest |-> <<>>]
    IN  IF buf = <<>> THEN bad("Invalid head of packet", <<>>)
        ELSE IF Head(buf) # SLIP_END THEN bad("Invalid head of packet", Tail(buf))
        ELSE LET h == Read(Tail(buf), 8)
             IN  IF h.status = "hang" THEN hung
                 ELSE IF h.status = "raise" THEN bad("Invalid SLIP escape", h.rest)
                 ELSE LET hdr == h.data
                          b == Read(h.rest, UnpackU16(SubSeq(hdr, 3, 4)))
                      IN  IF b.status = "hang" THEN hung
                          ELSE IF b.status = "raise" THEN bad("Invalid SLIP escape", b.rest)
                          ELSE IF b.rest = <<>> THEN bad("Invalid end of packet", <<>>)
                          ELSE IF Head(b.rest) # SLIP_END
                          THEN bad("Invalid end of packet", Tail(b.rest))
                          ELSE [status |-> "ok", err |-> "", op_ret |-> hdr[2],
                                val |-> UnpackU32(SubSeq(hdr, 5, 8)),
                                body |-> b.data, rest |-> Tail(b.rest)]

\* receive_response() on a port whose whole remaining input is buf:
\* status "ok" with (op_ret, val, body), "raise" (FatalError err), or "hang"
ReceiveResponse(buf) ==
    LET bad(msg, rest) ==
            [status |-> "raise", err |-> msg, op_ret |-> 0, val |-> 0, body |-> <<>>, rest |-> rest]
        hung == [status |-> "hang", err |-> "", op_ret |-> 0, val |-> 0, body |-> <<>>, rest |-> <<>>]
    IN  IF buf = <<>> THEN bad("Invalid head of packet", <<>>)
        ELSE IF Head(buf) # SLIP_END THEN bad("Invalid head of packet", Tail(buf))
        ELSE LET h == Read(Tail(buf), 8)
             IN  IF h.status = "hang" THEN hung
                 ELSE IF h.status = "raise" THEN bad("Invalid SLIP escape", h.rest)
                 ELSE LET hdr == h.data
                          resp == hdr[1]
                          op_ret == hdr[2]
                          len_ret == UnpackU16(SubSeq(hdr, 3, 4))
                          val == UnpackU32(SubSeq(hdr, 5, 8))
                      IN  IF resp # 1 THEN bad("Invalid response to command", h.rest)
                          ELSE LET b == Read(h.rest, len_ret)
                               IN  IF b.status = "hang" THEN hung
                                   ELSE IF b.status = "raise" THEN bad("Invalid SLIP escape", b.rest)
                                   ELSE IF b.rest = <<>> THEN bad("Invalid end of packet", <<>>)
                                   ELSE IF Head(b.rest) # SLIP_END
                                   THEN bad("Invalid end of packet", Tail(b.rest))
                                   ELSE [status |-> "ok", err |-> "", op_ret |-> op_ret, val |-> val,
                                         body |-> b.data, rest |-> Tail(b.rest)]

-----------------------------------------------------------------------------
(* flash_begin's erase size *)

\* the half rounded down instead of up
CeilHalfFloored(n) == n \div 2

\* int(math.ceil(n / 2.0)) for a non-negative integer n
CeilHalf(n) == (n \div 2) + (IF n % 2 = 0 THEN 0 ELSE 1)

\* the requested size passed on as it is
EraseSizeUnrounded(area_len, offset) == area_len

\* size as flash_begin(_size, offset) computes it
EraseSize(area_len, offset) ==
    LET sector_no == offset \div 4096
        sector_num_per_block == 16
        total_sector_num == IF area_len % 4096 = 0 THEN area_len \div 4096
                            ELSE 1 + (area_len \div 4096)
        head0 == sector_num_per_block - (sector_no % sector_num_per_block)
        head_sector_num == IF head0 >= total_sector_num THEN total_sector_num ELSE head0
    IN  IF total_sector_num - 2 * head_sector_num > 0
        THEN (total_sector_num - head_sector_num) * 4096
        ELSE CeilHalf(total_sector_num) * 4096

\* body of the FLASH_BEGIN request: struct.pack('<IIII', size, 0x200, ESP_FLASH_BLOCK, offset)
FlashBeginBody(area_len, offset) ==
    Pack4(EraseSize(area_len, offset), 512, ESP_FLASH_BLOCK, offset)

-----------------------------------------------------------------------------
(* ESPFirmwareImage: add_segment, save, and parsing in __init__ *)

SEG_ADDR_MIN == 1073610752   \* 0x3ffe0000
SEG_ADDR_MAX == 1075838976   \* 0x40200000
SEG_SIZE_MAX == 65536
MAX_SEGMENTS == 16

Zeros(n) == [i \in 1..n |-> 0]

EmptyImage == [segments |-> <<>>, entrypoint |-> 0, flash_mode |-> 0, flash_size_freq |-> 0]

\* add_segment storing the data as given, without the padding
add_segment_unpadded(img, addr, data) ==
    IF Len(data) > 0
    THEN [img EXCEPT !.segments = Append(@, [addr |-> addr, size |-> Len(data), data |-> data])]
    ELSE img

\* add_segment(addr, data): the image afterwards
add_segment(img, addr, data) ==
    LET l == Len(data)
        padded == IF l % 4 # 0 THEN data \o Zeros(4 - (l % 4)) ELSE data
    IN  IF l > 0
        THEN [img EXCEPT !.segments = Append(@, [addr |-> addr, size |-> Len(padded), data |-> padded])]
        ELSE img

RECURSIVE SegmentBytes(_)
\* what save()'s loop writes: struct.pack('<II', offset, size) then data, per segment
SegmentBytes(segs) ==
    IF segs = <<>> THEN <<>>
    ELSE PackU32(Head(segs).addr) \o PackU32(Head(segs).size) \o Head(segs).data
         \o SegmentBytes(Tail(segs))

RECURSIVE SegmentsChecksumWithHeaders(_, _)
\* the running checksum taking in each segment's header as well
SegmentsChecksumWithHeaders(segs, state) ==
    IF segs = <<>> THEN state
    ELSE SegmentsChecksumWithHeaders(Tail(segs),
             checksum(PackU32(Head(segs).addr) \o PackU32(Head(segs).size) \o Head(segs).data,
                      state))

RECURSIVE SegmentsChecksum(_, _)
\* the running checksum of save() and image_info: ESPROM.checksum(data, checksum) per segment
SegmentsChecksum(segs, state) ==
    IF segs = <<>> THEN state
    ELSE SegmentsChecksum(Tail(segs), checksum(Head(segs).data, state))

\* save() with the seek over the padding left out
save_unaligned(img) ==
    LET head == <<ESP_IMAGE_MAGIC, Len(img.segments), img.flash_mode, img.flash_size_freq>>
                \o PackU32(img.entrypoint)
    IN  head \o SegmentBytes(img.segments)
        \o <<SegmentsChecksum(img.segments, ESP_CHECKSUM_MAGIC)>>

\* save() seeking to the next multiple of 16 before the checksum byte
save_align16(img) ==
    LET head == <<ESP_IMAGE_MAGIC, Len(img.segments), img.flash_mode, img.flash_size_freq>>
                \o PackU32(img.entrypoint)
        written == head \o SegmentBytes(img.segments)
        align == 16 - (Len(written) % 16)
    IN  written \o Zeros(align) \o <<SegmentsChecksum(img.segments, ESP_CHECKSUM_MAGIC)>>

\* save(filename): the bytes of the file written (the seek leaves a gap of zeros)
save(img) ==
    LET head == <<ESP_IMAGE_MAGIC, Len(img.segments), img.flash_mode, img.flash_size_freq>>
                \o PackU32(img.entrypoint)
        written == head \o SegmentBytes(img.segments)
        align == 15 - (Len(written) % 16)
    IN  written \o Zeros(align) \o <<SegmentsChecksum(img.segments, ESP_CHECKSUM_MAGIC)>>

\* f.read(n) at position pos of a file with bytes f: short at the end of the file
FRead(f, pos, n) ==
    IF pos >= Len(f) THEN <<>>
    ELSE SubSeq(f, pos + 1, IF pos + n > Len(f) THEN Len(f) ELSE pos + n)

ParseFail(status, err, nread) ==
    [status |-> status, err |-> err, flash_mode |-> 0, flash_size_freq |-> 0, entrypoint |-> 0,
     segments |-> <<>>, checksum |-> 0, nread |-> nread]

\* the segment bounds taken as exclusive
SuspiciousInclusive(offset, size) ==
    offset >= SEG_ADDR_MAX \/ offset <= SEG_ADDR_MIN \/ size >= SEG_SIZE_MAX

\* if offset > 0x40200000 or offset < 0x3ffe0000 or size > 65536
Suspicious(offset, size) ==
    offset > SEG_ADDR_MAX \/ offset < SEG_ADDR_MIN \/ size > SEG_SIZE_MAX

RECURSIVE ParseSegments(_, _, _, _, _)
\* the segment loop of __init__ and what follows it; pos is f.tell(), nread the
\* bytes read so far, left the segments still to read, acc the parsed ones
ParseSegments(f, pos, nread, left, acc) ==
    IF left = 0
    THEN LET align == 15 - (pos % 16)
             c == FRead(f, pos + align, 1)
         IN  IF c = <<>> THEN ParseFail("TypeError", "ord() expected a character", nread)
             ELSE [acc EXCEPT !.status = "ok", !.checksum = c[1], !.nread = nread + 1]
    ELSE LET sh == FRead(f, pos, 8)
         IN  IF Len(sh) < 8 THEN ParseFail("struct.error", "unpack requires a string argument of length 8",
                                           nread + Len(sh))
             ELSE LET offset == UnpackU32(SubSeq(sh, 1, 4))
                      size == UnpackU32(SubSeq(sh, 5, 8))
                      segment_data == FRead(f, pos + 8, size)
                  IN  IF Suspicious(offset, size)
                      THEN ParseFail("FatalError", "Suspicious segment", nread + 8)
                      ELSE IF Len(segment_data) < size
                      THEN ParseFail("FatalError", "End of file reading segment",
                                     nread + 8 + Len(segment_data))
                      ELSE ParseSegments(f, pos + 8 + size, nread + 8 + size, left - 1,
                               [acc EXCEPT !.segments =
                                   Append(@, [addr |-> offset, size |-> size, data |-> segment_data])])

\* ESPFirmwareImage(filename) on a file with bytes f
LoadImage(f) ==
    LET h == FRead(f, 0, 8)
    IN  IF Len(h) < 8
        THEN ParseFail("struct.error", "unpack requires a string argument of length 8", Len(h))
        ELSE IF h[1] # ESP_IMAGE_MAGIC \/ h[2] > MAX_SEGMENTS
        THEN ParseFail("FatalError", "Invalid firmware image", 8)
        ELSE ParseSegments(f, 8, 8, h[2],
                 [status |-> "ok", err |-> "", flash_mode |-> h[3], flash_size_freq |-> h[4],
                  entrypoint |-> UnpackU32(SubSeq(h, 5, 8)), segments |-> <<>>,
                  checksum |-> 0, nread |-> 8])

-----------------------------------------------------------------------------
(* State after construction, per component *)

FramingIdle ==
    /\ packet = <<>> /\ wire = <<>> /\ inbuf = <<>>
    /\ rd_pc = "idle" /\ rd_len = 0 /\ rd_b = <<>> /\ rd_err = ""
    /\ rd_last = <<>> /\ rd_timeouts = 0

CmdIdle ==
    /\ cmd_pc = "idle" /\ cmd_op = None /\ retries = 0 /\ cmd_ret = NoValue /\ cmd_err = ""
    /\ last_resp = NoValue /\ n_read = 0 /\ n_mismatch = 0 /\ n_written = 0 /\ rx = <<>>

ConIdle ==
    /\ con_pc = "idle" /\ outer = 0 /\ inner = 0 /\ drained = 0 /\ syncs = 0 /\ sync_fail = 0
    /\ pulses = 0 /\ lines = <<>> /\ timeout = None

OpIdle ==
    /\ op_pc = "idle" /\ op_name = "none" /\ op_ctx = "main" /\ old_tmo = None
    /\ tmo_at_call = None /\ erase_in = <<0, 0>> /\ raised = "none" /\ exit_code = None

ImgIdle ==
    /\ image = EmptyImage /\ file = <<>> /\ parsed = NoValue /\ img_pc = "build"
    /\ add_in = NoValue /\ n_add = 0

XferIdle ==
    /\ xf_pc = "idle" /\ xf_job = NoValue /\ xf_idx = 0 /\ xf_data = <<>> /\ xf_seq = 0
    /\ xf_todo = <<>> /\ xf_log = <<>>

-----------------------------------------------------------------------------
(* Framing layer: write() and read() on the port *)

\* write(packet): self._port.write(buf)
Write ==
    /\ rd_pc = "idle" /\ wire = <<>>
    /\ \E p \in ByteStrings(FrameBytes, MaxLen) :
          /\ packet' = p
          /\ wire' = WriteBuf(p)
    /\ UNCHANGED <<inbuf, rd_pc, rd_len, rd_b, rd_err, rd_last, rd_timeouts>>
    /\ UNCHANGED <<cmdVars, conVars, opVars, imgVars, xferVars>>

\* read(length) is entered: b = '' and the loop condition is tested
ReadEnter(length) ==
    /\ rd_len' = length
    /\ rd_b' = <<>>
    /\ rd_pc' = IF 0 < length THEN "loop" ELSE "ret"
    /\ UNCHANGED <<rd_err, rd_last, rd_timeouts>>

\* the bytes write() put between its two delimiters come back on the port
\* and read(len(packet)) is called
EchoAndRead ==
    /\ rd_pc = "idle" /\ wire # <<>> /\ inbuf = <<>>
    /\ inbuf' = SubSeq(wire, 2, Len(wire) - 1)
    /\ ReadEnter(Len(packet))
    /\ UNCHANGED <<packet, wire>>
    /\ UNCHANGED <<cmdVars, conVars, opVars, imgVars, xferVars>>

\* the device sends the bytes s, nothing after them, and read(length) is called
DeviceStreamAndRead ==
    /\ rd_pc = "idle" /\ wire = <<>> /\ inbuf = <<>>
    /\ \E s \in ByteStrings(FrameBytes, MaxLen), length \in 0..MaxLen :
          /\ inbuf' = s
          /\ ReadEnter(length)
    /\ UNCHANGED <<packet, wire>>
    /\ UNCHANGED <<cmdVars, conVars, opVars, imgVars, xferVars>>

\* one iteration of read()'s while loop, up to the next test of its condition
ReadIter ==
    /\ rd_pc = "loop"
    /\ LET r == ReadOnce(inbuf)
           silent == IF r.kind = "timeout" \/ (r.kind = "raise" /\ Len(r.took) = 1) THEN 1 ELSE 0
       IN  /\ r.kind = "timeout" => rd_timeouts < MaxTimeouts
           /\ inbuf' = r.rest
           /\ rd_last' = r.took
           /\ rd_timeouts' = rd_timeouts + silent
           /\ rd_b' = IF r.kind = "byte" THEN Append(rd_b, r.byte) ELSE rd_b
           /\ rd_err' = IF r.kind = "raise" THEN "Invalid SLIP escape" ELSE rd_err
           /\ rd_pc' = IF r.kind = "raise" THEN "raise"
                       ELSE IF Len(rd_b') < rd_len THEN "loop" ELSE "ret"
    /\ UNCHANGED <<packet, wire, rd_len>>
    /\ UNCHANGED <<cmdVars, conVars, opVars, imgVars, xferVars>>

InitFraming ==
    /\ FramingIdle
    /\ CmdIdle /\ ConIdle /\ OpIdle /\ ImgIdle /\ XferIdle

NextFraming ==
    \/ Write
    \/ EchoAndRead
    \/ DeviceStreamAndRead
    \/ ReadIter

SpecFraming == InitFraming /\ [][NextFraming]_vars

-----------------------------------------------------------------------------
(* Command engine: command() and the responses the device sends *)

\* a frame as the ROM sends it: header (direction, opcode, body length, value),
\* body, SLIP-escaped between two delimiters
DeviceFrame(resp, op, val, body) ==
    WriteBuf(<<resp, op>> \o PackU16(Len(body)) \o PackU32(val) \o body)

\* status bodies a response can carry; only <<0, 0>> is the success code
StatusBodies == {<<0, 0>>, <<1, 6>>, <<0>>}

\* well-formed responses answering op
AnswerFrames(op) == {DeviceFrame(1, op, v, b) : v \in {0, 192}, b \in StatusBodies}

\* well-formed responses carrying another opcode than op
StrayFrames(op) == {DeviceFrame(1, o, 7, <<0, 0>>) : o \in {ESP_SYNC, ESP_READ_REG} \ {op}}

\* what is no well-formed response: silence, a wrong direction byte (with the
\* opcode asked for and with another), a header cut short, a missing end
\* delimiter, a body shorter than the header says, an illegal escape
BrokenFrames(op) ==
    {<<>>,
     DeviceFrame(0, op, 0, <<0, 0>>),
     DeviceFrame(0, IF op = ESP_READ_REG THEN ESP_SYNC ELSE ESP_READ_REG, 0, <<0, 0>>),
     <<192, 1, op>>,
     SubSeq(DeviceFrame(1, op, 0, <<0, 0>>), 1, 11) \o <<1>>,
     SubSeq(DeviceFrame(1, op, 0, <<0, 0>>), 1, 10) \o <<192>>,
     <<192, 219, 1>>}

\* the opcode a response is compared with: op, or the sync opcode when
\* command() was called without one
ExpectedOp(op) == IF op = None THEN ESP_SYNC ELSE op

AllFrames(op) ==
    AnswerFrames(ExpectedOp(op)) \cup StrayFrames(ExpectedOp(op)) \cup BrokenFrames(ExpectedOp(op))

MismatchMessage == "Response doesn't match request"

\* the retry loop's condition with the bound off by one
KeepTryingInclusive(r) == r >= 0

\* while retries > 0
KeepTrying(r) == r > 0

\* a request written whether or not an opcode is given
WritesRequestAlways(op) == TRUE

\* if op: the request is written when an opcode is given and is not 0
WritesRequest(op) == op # None /\ op # 0

\* command(op, data, chk) up to its loop: the request is written when op is given
CmdCall(op, data, chk) ==
    /\ cmd_pc' = "recv"
    /\ cmd_op' = op
    /\ IF WritesRequest(op)
       THEN /\ packet' = RequestPacket(op, data, chk)
            /\ wire' = WriteBuf(RequestPacket(op, data, chk))
            /\ n_written' = 1
       ELSE /\ UNCHANGED <<packet, wire>>
            /\ n_written' = 0
    /\ retries' = 100
    /\ cmd_ret' = NoValue /\ cmd_err' = "" /\ last_resp' = NoValue
    /\ n_read' = 0 /\ n_mismatch' = 0 /\ rx' = <<>>

\* one pass of command()'s loop: the device sends one of frames (nothing after
\* it) and receive_response() runs on the port input
CmdRecv(frames) ==
    /\ cmd_pc = "recv"
    /\ \E f \in frames :
          LET r == ReceiveResponse(inbuf \o f)
              matches == cmd_op = None \/ r.op_ret = cmd_op
          IN  /\ inbuf' = r.rest
              /\ rx' = inbuf \o f
              /\ IF r.status = "hang"
                 THEN /\ cmd_pc' = "hang"
                      /\ UNCHANGED <<retries, cmd_ret, cmd_err, last_resp, n_read, n_mismatch>>
                 ELSE IF r.status = "raise"
                 THEN /\ cmd_pc' = "raise"
                      /\ cmd_err' = r.err
                      /\ UNCHANGED <<retries, cmd_ret, last_resp, n_read, n_mismatch>>
                 ELSE /\ last_resp' = <<r.op_ret, r.val, r.body>>
                      /\ n_read' = n_read + 1
                      /\ n_mismatch' = IF cmd_op # None /\ r.op_ret # cmd_op
                                       THEN n_mismatch + 1 ELSE n_mismatch
                      /\ IF matches
                         THEN /\ cmd_pc' = "ret"
                              /\ cmd_ret' = <<r.val, r.body>>
                              /\ UNCHANGED <<retries, cmd_err>>
                         ELSE /\ retries' = retries - 1
                              /\ cmd_ret' = cmd_ret
                              /\ IF KeepTrying(retries')
                                 THEN cmd_pc' = "recv" /\ cmd_err' = cmd_err
                                 ELSE cmd_pc' = "raise" /\ cmd_err' = MismatchMessage
    /\ UNCHANGED <<packet, wire, cmd_op, n_written>>
    /\ UNCHANGED <<rd_pc, rd_len, rd_b, rd_err, rd_last, rd_timeouts>>

\* request bodies given to command() when the engine is driven on its own
SampleBodies == {<<>>, PackU32(192), Pack4(0, 0, 0, 0)}

\* command(op, data) or command() is called
CommandCall ==
    /\ cmd_pc = "idle"
    /\ \E op \in {None, ESP_SYNC, ESP_READ_REG, ESP_MEM_END}, data \in SampleBodies :
          CmdCall(op, data, 0)
    /\ UNCHANGED <<inbuf, rd_pc, rd_len, rd_b, rd_err, rd_last, rd_timeouts>>
    /\ UNCHANGED <<conVars, opVars, imgVars, xferVars>>

\* command() reads one response
CommandReceive ==
    /\ CmdRecv(AllFrames(cmd_op))
    /\ UNCHANGED <<conVars, opVars, imgVars, xferVars>>

InitCommand == FramingIdle /\ CmdIdle /\ ConIdle /\ OpIdle /\ ImgIdle /\ XferIdle

NextCommand ==
    \/ CommandCall
    \/ CommandReceive

SpecCommand == InitCommand /\ [][NextCommand]_vars

-----------------------------------------------------------------------------
(* Handshake: sync() and connect() *)

\* '\x07\x07\x12\x20' + 32 * '\x55'
SyncPayload == <<7, 7, 18, 32>> \o [i \in 1..32 |-> 85]

\* sync() reading one response more after the first
SyncDrainsOneMore == 7 + 1
\* the responses sync() reads after the first
SYNC_DRAINS == 7
\* for _ in xrange(4), the outer loop of connect()
OUTER_ATTEMPTS == 4
\* the inner loop of connect() running once more
InnerAttemptsOneMore == 2 + 3
\* for _ in xrange(4), the inner loop of connect()
INNER_ATTEMPTS == 4

TIMEOUT_SYNC == 300       \* self._port.timeout = 0.3
TIMEOUT_NORMAL == 5000    \* self._port.timeout = 5
TIMEOUT_ERASE == 10000    \* self._port.timeout = 10

\* the reset pulse releasing RTS before DTR is set
ResetPulseReleaseFirst ==
    << <<"DTR", FALSE>>, <<"RTS", TRUE>>, <<"RTS", FALSE>>, <<"DTR", TRUE>>, <<"DTR", FALSE>> >>

\* the control line calls of one reset pulse, in order
ResetPulse ==
    << <<"DTR", FALSE>>, <<"RTS", TRUE>>, <<"DTR", TRUE>>, <<"RTS", FALSE>>, <<"DTR", FALSE>> >>

\* connect() is called on the newly opened port
ConnectCall ==
    /\ con_pc = "idle"
    /\ con_pc' = "pulse"
    /\ outer' = 0
    /\ UNCHANGED <<inner, drained, syncs, sync_fail, pulses, lines, timeout>>
    /\ UNCHANGED <<framingVars, cmdVars, opVars, imgVars, xferVars>>

\* one pass of the outer loop up to the inner loop: reset pulse, short timeout
ConnectPulse ==
    /\ con_pc = "pulse"
    /\ lines' = ResetPulse
    /\ pulses' = pulses + 1
    /\ timeout' = TIMEOUT_SYNC
    /\ inner' = 0
    /\ con_pc' = "flush"
    /\ UNCHANGED <<outer, drained, syncs, sync_fail>>
    /\ UNCHANGED <<framingVars, cmdVars, opVars, imgVars, xferVars>>

\* one pass of the inner loop up to sync()'s first read: both buffers are
\* flushed and sync() sends its request
ConnectSync ==
    /\ con_pc = "flush"
    /\ inbuf' = <<>>
    /\ CmdCall(ESP_SYNC, SyncPayload, 0)
    /\ syncs' = syncs + 1
    /\ drained' = 0
    /\ con_pc' = "sync"
    /\ UNCHANGED <<rd_pc, rd_len, rd_b, rd_err, rd_last, rd_timeouts>>
    /\ UNCHANGED <<outer, inner, sync_fail, pulses, lines, timeout>>
    /\ UNCHANGED <<opVars, imgVars, xferVars>>

\* a command() of sync() reads one response
SyncReceive ==
    /\ con_pc = "sync"
    /\ CmdRecv(AllFrames(cmd_op))
    /\ UNCHANGED <<conVars, opVars, imgVars, xferVars>>

\* a command() of sync() returned: the next of the 7 command() calls, or
\* sync() returns and connect() sets the normal timeout and returns
SyncContinue ==
    /\ con_pc = "sync" /\ cmd_pc = "ret"
    /\ IF drained < SYNC_DRAINS
       THEN /\ CmdCall(None, <<>>, 0)
            /\ drained' = drained + 1
            /\ UNCHANGED <<con_pc, timeout>>
       ELSE /\ cmd_pc' = "idle"
            /\ timeout' = TIMEOUT_NORMAL
            /\ con_pc' = "ret"
            /\ UNCHANGED <<packet, wire, cmd_op, retries, cmd_ret, cmd_err, last_resp,
                           n_read, n_mismatch, n_written, rx, drained>>
    /\ UNCHANGED <<inbuf, rd_pc, rd_len, rd_b, rd_err, rd_last, rd_timeouts>>
    /\ UNCHANGED <<outer, inner, syncs, sync_fail, pulses, lines>>
    /\ UNCHANGED <<opVars, imgVars, xferVars>>

\* a command() of sync() raised: the bare except of connect() takes it, and the
\* loops go on or connect() raises 'Failed to connect to ESP8266'
SyncFailed ==
    /\ con_pc = "sync" /\ cmd_pc = "raise"
    /\ cmd_pc' = "idle"
    /\ sync_fail' = sync_fail + 1
    /\ IF inner + 1 < INNER_ATTEMPTS
       THEN inner' = inner + 1 /\ outer' = outer /\ con_pc' = "flush"
       ELSE /\ inner' = inner + 1
            /\ outer' = outer + 1
            /\ con_pc' = IF outer + 1 < OUTER_ATTEMPTS THEN "pulse" ELSE "raise"
    /\ UNCHANGED <<cmd_op, retries, cmd_ret, cmd_err, last_resp, n_read, n_mismatch, n_written, rx>>
    /\ UNCHANGED <<drained, syncs, pulses, lines, timeout>>
    /\ UNCHANGED <<framingVars, opVars, imgVars, xferVars>>

InitConnect == FramingIdle /\ CmdIdle /\ ConIdle /\ OpIdle /\ ImgIdle /\ XferIdle

NextConnect ==
    \/ ConnectCall
    \/ ConnectPulse
    \/ ConnectSync
    \/ SyncReceive
    \/ SyncContinue
    \/ SyncFailed

SpecConnect == InitConnect /\ [][NextConnect]_vars

-----------------------------------------------------------------------------
(* Primitive operations: the request each sends, its status check, and the
   top level's handling of what it raises *)

Request(name, op, body, chk) == [name |-> name, op |-> op, body |-> body, chk |-> chk]

read_reg(addr) == Request("read_reg", ESP_READ_REG, PackU32(addr), 0)

write_reg(addr, value, mask, delay_us) ==
    Request("write_reg", ESP_WRITE_REG, Pack4(addr, value, mask, delay_us), 0)

mem_begin(size, blocks, blocksize, offset) ==
    Request("mem_begin", ESP_MEM_BEGIN, Pack4(size, blocks, blocksize, offset), 0)

mem_block(data, seq) ==
    Request("mem_block", ESP_MEM_DATA, Pack4(Len(data), seq, 0, 0) \o data,
            checksum(data, ESP_CHECKSUM_MAGIC))

mem_finish(entrypoint) ==
    Request("mem_finish", ESP_MEM_END,
            PackU32(IF entrypoint = 0 THEN 1 ELSE 0) \o PackU32(entrypoint), 0)

flash_begin(size, offset) ==
    Request("flash_begin", ESP_FLASH_BEGIN, FlashBeginBody(size, offset), 0)

flash_block(data, seq) ==
    Request("flash_block", ESP_FLASH_DATA, Pack4(Len(data), seq, 0, 0) \o data,
            checksum(data, ESP_CHECKSUM_MAGIC))

flash_finish(reboot) ==
    Request("flash_finish", ESP_FLASH_END, PackU32(IF reboot THEN 0 ELSE 1), 0)

\* the two-byte success code "\0\0"
StatusOk == <<0, 0>>

\* the class of the exception an operation raises on a failed status check
StatusFailureClass(name) == IF name = "flash_begin" THEN "Exception" ELSE "FatalError"

\* the exit code of the process when an exception of class c reaches
\* __main__: FatalError is caught, printed and turned into sys.exit(2); any
\* other exception is uncaught and the interpreter exits with 1
ExitCodeFor(c) == IF c = "FatalError" THEN 2 ELSE 1

\* calls of the operations other than flash_begin enumerated in the model
SampleCalls ==
    {read_reg(1072693328), read_reg(1610613312),
     write_reg(1610613312, 268435456, 2147483647, 0),
     mem_begin(8, 1, 6144, 1074790400), mem_begin(0, 0, 0, 1074790400),
     mem_block(<<192, 219, 0, 255>>, 0), mem_block(<<1, 2, 3, 4>>, 1),
     mem_finish(0), mem_finish(1073741952),
     flash_block(<<233, 1, 0, 192>>, 0),
     flash_finish(FALSE), flash_finish(TRUE)}

\* an operation sends its request through command()
OpEnter(rq, ctx) ==
    /\ op_pc' = "wait"
    /\ op_name' = rq.name
    /\ op_ctx' = ctx
    /\ tmo_at_call' = timeout
    /\ CmdCall(rq.op, rq.body, rq.chk)
    /\ UNCHANGED <<inbuf, rd_pc, rd_len, rd_b, rd_err, rd_last, rd_timeouts>>
    /\ UNCHANGED <<raised, exit_code>>

\* main() calls one of the operations; read_reg is also called by get_mac()
PrimitiveCall ==
    /\ op_pc = "idle"
    /\ \E rq \in SampleCalls, ctx \in {"main", "get_mac"} :
          /\ ctx = "get_mac" => rq.name = "read_reg"
          /\ OpEnter(rq, ctx)
    /\ UNCHANGED <<old_tmo, erase_in>>
    /\ UNCHANGED <<conVars, imgVars, xferVars>>

\* flash_begin(_size, offset) up to command()'s loop: the timeout is saved and
\* raised to 10 s, the erase size computed and the request sent
FlashBeginEnter(size, offset) ==
    /\ old_tmo' = timeout
    /\ timeout' = TIMEOUT_ERASE
    /\ erase_in' = <<size, offset>>
    /\ OpEnter(flash_begin(size, offset), "main")
    /\ UNCHANGED <<con_pc, outer, inner, drained, syncs, sync_fail, pulses, lines>>
    /\ UNCHANGED imgVars

\* flash_begin calls enumerated next to the other operations
FlashBeginCall ==
    /\ op_pc = "idle"
    /\ \E size \in {0, 4096, 786432}, offset \in {0, 4096} : FlashBeginEnter(size, offset)
    /\ UNCHANGED xferVars

\* the operation's command() reads one response
OpReceive(frames) ==
    /\ op_pc = "wait"
    /\ CmdRecv(frames)
    /\ UNCHANGED <<conVars, opVars, imgVars, xferVars>>

\* command() returned: the status check, and for flash_begin the restoring
\* of the timeout that follows it
OpStatusCheck ==
    /\ op_pc = "wait" /\ cmd_pc = "ret"
    /\ cmd_pc' = "idle"
    /\ IF cmd_ret[2] # StatusOk
       THEN /\ op_pc' = "raise"
            /\ raised' = StatusFailureClass(op_name)
            /\ UNCHANGED timeout
       ELSE /\ op_pc' = "ret"
            /\ raised' = raised
            /\ timeout' = IF op_name = "flash_begin" THEN old_tmo ELSE timeout
    /\ UNCHANGED <<cmd_op, retries, cmd_ret, cmd_err, last_resp, n_read, n_mismatch, n_written, rx>>
    /\ UNCHANGED <<op_name, op_ctx, old_tmo, tmo_at_call, erase_in, exit_code>>
    /\ UNCHANGED <<con_pc, outer, inner, drained, syncs, sync_fail, pulses, lines>>
    /\ UNCHANGED <<framingVars, imgVars, xferVars>>

\* command() raised: its FatalError passes through the operation
OpCommandRaised ==
    /\ op_pc = "wait" /\ cmd_pc = "raise"
    /\ cmd_pc' = "idle"
    /\ op_pc' = "raise"
    /\ raised' = "FatalError"
    /\ UNCHANGED <<cmd_op, retries, cmd_ret, cmd_err, last_resp, n_read, n_mismatch, n_written, rx>>
    /\ UNCHANGED <<op_name, op_ctx, old_tmo, tmo_at_call, erase_in, exit_code>>
    /\ UNCHANGED <<framingVars, conVars, imgVars, xferVars>>

\* the process ends: main() returned, or the exception reached get_mac()'s
\* bare except (which prints and returns False) or __main__
ProgramEnd ==
    /\ op_pc \in {"ret", "raise"}
    /\ op_pc' = "exit"
    /\ exit_code' = IF op_pc = "ret" THEN 0
                    ELSE IF op_ctx = "get_mac" THEN 0
                    ELSE ExitCodeFor(raised)
    /\ UNCHANGED <<op_name, op_ctx, old_tmo, tmo_at_call, erase_in, raised>>
    /\ UNCHANGED <<framingVars, cmdVars, conVars, imgVars, xferVars>>

\* the session once connect() has returned
Connected ==
    /\ con_pc = "ret" /\ outer = 0 /\ inner = 0 /\ drained = SYNC_DRAINS /\ syncs = 1
    /\ sync_fail = 0 /\ pulses = 1 /\ lines = ResetPulse /\ timeout = TIMEOUT_NORMAL

InitOps == FramingIdle /\ CmdIdle /\ Connected /\ OpIdle /\ ImgIdle /\ XferIdle

OpsReceive == OpReceive(AllFrames(cmd_op))

NextOps ==
    \/ PrimitiveCall
    \/ FlashBeginCall
    \/ OpsReceive
    \/ OpStatusCheck
    \/ OpCommandRaised
    \/ ProgramEnd

SpecOps == InitOps /\ [][NextOps]_vars

-----------------------------------------------------------------------------
(* flash_begin over a range of sizes and offsets *)

\* most 4096-byte sectors of a requested size
MaxSectors == 36
\* highest sector index of an offset
MaxOffsetSector == 17

\* requested sizes: whole sectors, whole 1024-byte blocks, and sizes around them
EraseSizes ==
    {k * 4096 : k \in 0..MaxSectors} \cup {k * 1024 : k \in 0..MaxSectors}
    \cup {1, 4095, 4097, 100000, 1000000, 786432}

\* flash offsets: sector starts, and some inside a sector
EraseOffsets ==
    {k * 4096 : k \in 0..MaxOffsetSector} \cup {1024, 4097, 507904, 4177920}

EraseCall ==
    /\ op_pc = "idle"
    /\ \E size \in EraseSizes, offset \in EraseOffsets : FlashBeginEnter(size, offset)
    /\ UNCHANGED xferVars

EraseReceive ==
    OpReceive(AnswerFrames(cmd_op) \cup BrokenFrames(cmd_op))

NextErase ==
    \/ EraseCall
    \/ EraseReceive
    \/ OpStatusCheck
    \/ OpCommandRaised
    \/ ProgramEnd

SpecErase == InitOps /\ [][NextErase]_vars

-----------------------------------------------------------------------------
(* Firmware images: built by add_segment, written by save, read back *)

\* most segments added to one image
MaxSegments == 2
\* longest section given to add_segment
MaxDataLen == 6
\* most add_segment calls on one image (elf2image makes three)
MaxAddCalls == 3

\* load addresses given to add_segment: the two ends of the range the parser
\* accepts and one above it
SegmentAddresses == {SEG_ADDR_MIN, SEG_ADDR_MAX, SEG_ADDR_MAX + 4}

\* section contents given to add_segment: one of each length, and 0xFF bytes
SegmentData ==
    {[i \in 1..n |-> (201 + 37 * i) % 256] : n \in 0..MaxDataLen}
    \cup {<<255, 255, 255, 255>>}

\* (entrypoint, flash_mode, flash_size_freq) set by make_image and elf2image
HeaderValues == {<<0, 0, 0>>, <<1074790404, 2, 79>>}

\* (addr, data) given to add_segment: every address with every content, and
\* the two segments of a small RAM image
SegmentInputs ==
    (SegmentAddresses \X SegmentData)
    \cup {<<1074790400, <<0, 0, 0, 0>> >>, <<1073643520, <<255, 255, 255, 255>> >>}

\* image.add_segment(addr, data), as make_image and elf2image call it
AddSegment ==
    /\ img_pc = "build"
    /\ Len(image.segments) < MaxSegments
    /\ n_add < MaxAddCalls
    /\ \E in \in SegmentInputs :
          /\ image' = add_segment(image, in[1], in[2])
          /\ add_in' = in
    /\ n_add' = n_add + 1
    /\ UNCHANGED <<file, parsed, img_pc>>
    /\ UNCHANGED <<framingVars, cmdVars, conVars, opVars, xferVars>>

\* the header fields are set and image.save(filename) writes the file
SaveImage ==
    /\ img_pc = "build"
    /\ \E h \in HeaderValues :
          /\ image' = [image EXCEPT !.entrypoint = h[1], !.flash_mode = h[2],
                                    !.flash_size_freq = h[3]]
          /\ file' = save(image')
    /\ img_pc' = "saved"
    /\ UNCHANGED <<parsed, add_in, n_add>>
    /\ UNCHANGED <<framingVars, cmdVars, conVars, opVars, xferVars>>

\* the 8-byte file header with the given magic and segment count
FileHeader(magic, count) == <<magic, count, 2, 79>> \o PackU32(1074790404)

\* a segment header and the data that follows it
FileSegment(addr, size, data) == PackU32(addr) \o PackU32(size) \o data

\* the padding and the trailing byte after the last segment
FileEnd(f) == f \o Zeros(15 - (Len(f) % 16)) \o <<ESP_CHECKSUM_MAGIC>>

RECURSIVE SmallSegments(_)
\* n segments of four bytes each
SmallSegments(n) ==
    IF n = 0 THEN <<>>
    ELSE FileSegment(SEG_ADDR_MIN + 4 * n, 4, <<n, 0, 0, 0>>) \o SmallSegments(n - 1)

\* files not written by save() that the parser is given: segment counts
\* around 16, another magic, segment addresses and sizes at and beyond the
\* limits, with and without the bytes the headers announce
GivenFiles ==
    {FileHeader(ESP_IMAGE_MAGIC, 17),
     FileEnd(FileHeader(ESP_IMAGE_MAGIC, 17) \o SmallSegments(17)),
     FileEnd(FileHeader(ESP_IMAGE_MAGIC, 255) \o SmallSegments(2)),
     FileEnd(FileHeader(ESP_IMAGE_MAGIC, 16) \o SmallSegments(16)),
     FileEnd(FileHeader(232, 1) \o SmallSegments(1)),
     FileEnd(FileHeader(0, 0)),
     FileHeader(ESP_IMAGE_MAGIC, 1) \o FileSegment(1074790400, 70000, <<>>),
     FileEnd(FileHeader(ESP_IMAGE_MAGIC, 1) \o FileSegment(1074790400, 70000, Zeros(70000))),
     FileEnd(FileHeader(ESP_IMAGE_MAGIC, 1) \o FileSegment(SEG_ADDR_MIN, 65537, <<1, 2, 3, 4>>)),
     FileEnd(FileHeader(ESP_IMAGE_MAGIC, 1) \o FileSegment(SEG_ADDR_MIN - 1, 4, <<1, 2, 3, 4>>)),
     FileEnd(FileHeader(ESP_IMAGE_MAGIC, 1) \o FileSegment(SEG_ADDR_MAX + 1, 4, <<1, 2, 3, 4>>)),
     FileEnd(FileHeader(ESP_IMAGE_MAGIC, 1) \o FileSegment(0, 4, <<1, 2, 3, 4>>)),
     FileEnd(FileHeader(ESP_IMAGE_MAGIC, 1) \o FileSegment(SEG_ADDR_MIN, 65536, Zeros(65536))),
     FileEnd(FileHeader(ESP_IMAGE_MAGIC, 1) \o FileSegment(SEG_ADDR_MAX, 65536, Zeros(65536))),
     FileHeader(ESP_IMAGE_MAGIC, 1) \o FileSegment(SEG_ADDR_MAX, 65536, <<1, 2, 3, 4>>),
     FileEnd(FileHeader(ESP_IMAGE_MAGIC, 2) \o SmallSegments(1)
             \o FileSegment(1074790400, 70000, <<1, 2, 3, 4>>)),
     FileEnd(FileHeader(ESP_IMAGE_MAGIC, 2) \o FileSegment(SEG_ADDR_MAX, 8, Zeros(8))
             \o FileSegment(SEG_ADDR_MAX + 4, 4, <<1, 2, 3, 4>>))}

\* a well-formed image file of two segments
WholeFile == FileEnd(FileHeader(ESP_IMAGE_MAGIC, 2) \o SmallSegments(2))

\* the file cut short at every point
CutFiles == {SubSeq(WholeFile, 1, k) : k \in 0..(Len(WholeFile) - 1)}

\* a file from elsewhere is named on the command line
GivenFile ==
    /\ img_pc = "build" /\ image = EmptyImage
    /\ \E f \in GivenFiles \cup CutFiles : file' = f
    /\ img_pc' = "given"
    /\ UNCHANGED <<image, parsed, add_in, n_add>>
    /\ UNCHANGED <<framingVars, cmdVars, conVars, opVars, xferVars>>

\* ESPFirmwareImage(filename) reads the file
ParseImage ==
    /\ img_pc \in {"saved", "given"}
    /\ parsed' = LoadImage(file)
    /\ img_pc' = IF img_pc = "saved" THEN "parsed" ELSE "loaded"
    /\ UNCHANGED <<image, file, add_in, n_add>>
    /\ UNCHANGED <<framingVars, cmdVars, conVars, opVars, xferVars>>

InitImage == FramingIdle /\ CmdIdle /\ ConIdle /\ OpIdle /\ ImgIdle /\ XferIdle

NextImage ==
    \/ AddSegment
    \/ GivenFile
    \/ SaveImage
    \/ ParseImage

SpecImage == InitImage /\ [][NextImage]_vars

-----------------------------------------------------------------------------
(* make_image: one add_segment per segment file, then save *)

\* most segment files named on the command line
MaxSegFiles == 17

\* contents of the segment files: three bytes, or none
SegFileData == {<<233, 192, 7>>, <<>>}

\* the loop of make_image: data = file(seg, 'rb').read(); image.add_segment(addr, data)
MakeImageAdd ==
    /\ img_pc = "build"
    /\ n_add < MaxSegFiles
    /\ \E data \in SegFileData :
          /\ image' = add_segment(image, 1074790400, data)
          /\ add_in' = <<1074790400, data>>
    /\ n_add' = n_add + 1
    /\ UNCHANGED <<file, parsed, img_pc>>
    /\ UNCHANGED <<framingVars, cmdVars, conVars, opVars, xferVars>>

\* after the loop: image.entrypoint = args.entrypoint; image.save(args.output);
\* make_image raises 'No segments specified' when no segment file was named
MakeImageSave ==
    /\ img_pc = "build" /\ n_add > 0
    /\ \E e \in {0, 1074790404} :
          /\ image' = [image EXCEPT !.entrypoint = e]
          /\ file' = save(image')
    /\ img_pc' = "saved"
    /\ UNCHANGED <<parsed, add_in, n_add>>
    /\ UNCHANGED <<framingVars, cmdVars, conVars, opVars, xferVars>>

NextMakeImage ==
    \/ MakeImageAdd
    \/ MakeImageSave
    \/ ParseImage

SpecMakeImage == InitImage /\ [][NextMakeImage]_vars

-----------------------------------------------------------------------------
(* load_ram, write_flash and erase_flash: the calls main() makes, in order *)

\* most blocks one segment or file of the model is sent in
MaxBlocks == 3

\* s[a:b] of Python for 0 <= a <= b
Slice(s, a, b) == SubSeq(s, a + 1, IF b > Len(s) THEN Len(s) ELSE b)

\* s[a:] of Python for 0 <= a
SliceFrom(s, a) == SubSeq(s, a + 1, Len(s))

\* return (int(a) + int(b) - 1) / int(b)
div_roundup(a, b) == (a + b - 1) \div b

\* seq left as it is after a block
NextSeqSame(seq) == seq

\* seq += 1
NextSeq(seq) == seq + 1

\* a call of one of the operations, with its arguments
Call(name, args) == [name |-> name, args |-> args]

\* the request the call sends
RequestOf(c) ==
    CASE c.name = "mem_begin" -> mem_begin(c.args[1], c.args[2], c.args[3], c.args[4])
      [] c.name = "mem_block" -> mem_block(c.args[1], c.args[2])
      [] c.name = "mem_finish" -> mem_finish(c.args[1])
      [] c.name = "flash_begin" -> flash_begin(c.args[1], c.args[2])
      [] c.name = "flash_block" -> flash_block(c.args[1], c.args[2])
      [] c.name = "flash_finish" -> flash_finish(c.args[1])

\* the unlock sequence ending with a FLASH_END request
flash_unlock_dio_finishing ==
    <<Call("flash_begin", <<0, 0>>), Call("mem_begin", <<0, 0, 0, 1074790400>>),
      Call("mem_finish", <<1073741952>>), Call("flash_finish", <<FALSE>>)>>

\* flash_unlock_dio(): flash_begin(0, 0); mem_begin(0,0,0,0x40100000); mem_finish(0x40000080)
flash_unlock_dio ==
    <<Call("flash_begin", <<0, 0>>), Call("mem_begin", <<0, 0, 0, 1074790400>>),
      Call("mem_finish", <<1073741952>>)>>

\* flash_erase(): flash_begin(0, 0); mem_begin(0,0,0,0x40100000); mem_finish(0x40004984)
flash_erase ==
    <<Call("flash_begin", <<0, 0>>), Call("mem_begin", <<0, 0, 0, 1074790400>>),
      Call("mem_finish", <<1073760644>>)>>

\* the assembly routine that reads from the SPI flash and sends to the host
SFLASH_STUB ==
    <<128, 60, 0, 64, 28, 75, 0, 64, 33, 17, 0, 64, 0, 128,
      254, 63, 193, 251, 255, 209, 248, 255, 45, 13, 49, 253, 255, 65, 247, 255, 74,
      221, 81, 249, 255, 192, 5, 0, 33, 249, 255, 49, 243, 255, 65, 245, 255, 192,
      4, 0, 11, 204, 86, 236, 253, 6, 255, 255, 0, 0>>

\* the calls of flash_read with the stub started before it was loaded
flash_read_started_first(offset, size, count) ==
    LET stub == PackU32(offset) \o PackU32(size) \o PackU32(count) \o SFLASH_STUB
    IN  <<Call("flash_begin", <<0, 0>>),
          Call("mem_begin", <<Len(stub), 1, Len(stub), 1074790400>>),
          Call("mem_finish", <<1074790428>>),
          Call("mem_block", <<stub, 0>>)>>

\* flash_read(offset, size, count) up to its loop: stub = struct.pack('<III',
\* offset, size, count) + SFLASH_STUB; flash_begin(0, 0); mem_begin(len(stub),
\* 1, len(stub), 0x40100000); mem_block(stub, 0); mem_finish(0x4010001c)
flash_read(offset, size, count) ==
    LET stub == PackU32(offset) \o PackU32(size) \o PackU32(count) \o SFLASH_STUB
    IN  <<Call("flash_begin", <<0, 0>>),
          Call("mem_begin", <<Len(stub), 1, Len(stub), 1074790400>>),
          Call("mem_block", <<stub, 0>>),
          Call("mem_finish", <<1074790428>>)>>

\* the calls of an operation that follow its loops
TailCalls(job) ==
    CASE job.cmd = "load_ram" -> <<Call("mem_finish", <<job.entry>>)>>
      [] job.cmd = "write_flash" ->
            IF job.mode = "dio" THEN flash_unlock_dio
            ELSE <<Call("flash_begin", <<0, 0>>), Call("flash_finish", <<FALSE>>)>>
      [] job.cmd = "erase_flash" -> flash_erase
      [] job.cmd = "read_flash" ->
            flash_read(job.info[1], 1024, div_roundup(job.info[2], 1024))

\* the begin call of the loop body for the item (address, data)
BeginCall(job, item) ==
    IF job.cmd = "load_ram"
    THEN Call("mem_begin", <<Len(item[2]), div_roundup(Len(item[2]), ESP_RAM_BLOCK),
                             ESP_RAM_BLOCK, item[1]>>)
    ELSE Call("flash_begin", <<div_roundup(Len(item[2]), ESP_FLASH_BLOCK) * ESP_FLASH_BLOCK,
                               item[1]>>)

\* the block write_flash sends for the rest image of the file at address:
\* the flash parameters patched into a first block that starts with 0xE9, the
\* block padded with 0xFF
FlashBlock(image_rest, address, seq, flash_info) ==
    LET block == Slice(image_rest, 0, ESP_FLASH_BLOCK)
        fixed == IF address = 0 /\ seq = 0 /\ block[1] = ESP_IMAGE_MAGIC
                 THEN Slice(block, 0, 2) \o flash_info \o SliceFrom(block, 4)
                 ELSE block
    IN  fixed \o [i \in 1..(ESP_FLASH_BLOCK - Len(fixed)) |-> 255]

\* the block call of the inner loop
BlockCall(job, address, data, seq) ==
    IF job.cmd = "load_ram"
    THEN Call("mem_block", <<Slice(data, 0, ESP_RAM_BLOCK), seq>>)
    ELSE Call("flash_block", <<FlashBlock(data, address, seq, job.info), seq>>)

\* data = data[ESP_RAM_BLOCK:], image = image[ESP_FLASH_BLOCK:]
RestAfterBlock(job, data) ==
    SliceFrom(data, IF job.cmd = "load_ram" THEN ESP_RAM_BLOCK ELSE ESP_FLASH_BLOCK)

\* the first four 32-bit words of a request body (fewer when it is shorter)
Fields(body) ==
    [i \in 1..(IF Len(body) >= 16 THEN 4 ELSE Len(body) \div 4) |->
        UnpackU32(SubSeq(body, 4 * i - 3, 4 * i))]

\* the request packet pkt as command() wrote it: opcode, words of the body,
\* and the number of bytes that follow the four words
SendEntry(pkt) ==
    [kind |-> "send", op |-> pkt[2], fields |-> Fields(SubSeq(pkt, 9, Len(pkt))),
     n |-> IF Len(pkt) > 24 THEN Len(pkt) - 24 ELSE 0, status |-> <<>>]

\* the response the call returned with: its opcode and status bytes
AckEntry ==
    [kind |-> "ack", op |-> last_resp[1], fields |-> <<>>, n |-> 0, status |-> last_resp[3]]

\* contents of n bytes; the first is 0xE9 when magic
Contents(n, magic) == [i \in 1..n |-> IF i = 1 /\ magic THEN 233 ELSE (201 + 37 * i) % 256]

\* segment sizes of the RAM images: whole blocks, and four bytes more
RamSizes ==
    {k * ESP_RAM_BLOCK : k \in 1..(MaxBlocks - 1)}
    \cup {k * ESP_RAM_BLOCK + 4 : k \in 0..(MaxBlocks - 1)}

\* the image file with segments of the given sizes, as save() writes it
RamImageFile(sizes) ==
    save([segments |-> [i \in 1..Len(sizes) |->
                           [addr |-> 1074790400 + 32768 * (i - 1), size |-> sizes[i],
                            data |-> Contents(sizes[i], FALSE)]],
          entrypoint |-> 1074790404, flash_mode |-> 0, flash_size_freq |-> 0])

\* the files load_ram is given: images of no, one and two segments, and a
\* file the parser refuses
RamFiles ==
    {RamImageFile(<<>>)} \cup {RamImageFile(<<a>>) : a \in RamSizes}
    \cup {RamImageFile(<<a, 4>>) : a \in RamSizes}
    \cup {RamImageFile(<<4, ESP_RAM_BLOCK + 4>>)}
    \cup {FileHeader(ESP_IMAGE_MAGIC, 17)}

\* lengths of the files written to flash: none, whole blocks, and one byte more
FlashLengths ==
    {0} \cup {k * ESP_FLASH_BLOCK : k \in 1..(MaxBlocks - 1)}
    \cup {k * ESP_FLASH_BLOCK + 1 : k \in 0..(MaxBlocks - 1)}

\* the (address, file contents) lists write_flash is given
FlashFileLists ==
    {<< <<a, Contents(n, m)>> >> : a \in {0, 4096}, n \in FlashLengths, m \in BOOLEAN}
    \cup {<< <<0, Contents(ESP_FLASH_BLOCK + 1, TRUE)>>, <<4096, Contents(1, TRUE)>> >>,
          << <<4096, Contents(1, FALSE)>>, <<0, Contents(3, TRUE)>> >>}

\* ESPFirmwareImage(args.filename) of load_ram and the loop over image.segments
LoadRamJob(f) ==
    LET img == LoadImage(f)
    IN  [cmd |-> "load_ram", status |-> img.status,
         items |-> [i \in 1..Len(img.segments) |-> <<img.segments[i].addr, img.segments[i].data>>],
         entry |-> img.entrypoint, mode |-> "", info |-> <<>>]

\* flash_mode = {'qio':0, 'qout':1, 'dio':2, 'dout': 3}[args.flash_mode]
FlashModes == [qio |-> 0, qout |-> 1, dio |-> 2, dout |-> 3]

\* write_flash with its arguments: flash_info = struct.pack('BB', flash_mode, flash_size_freq)
WriteFlashJob(items, mode, flash_size_freq) ==
    [cmd |-> "write_flash", status |-> "ok", items |-> items, entry |-> 0, mode |-> mode,
     info |-> <<FlashModes[mode], flash_size_freq>>]

EraseFlashJob ==
    [cmd |-> "erase_flash", status |-> "ok", items |-> <<>>, entry |-> 0, mode |-> "",
     info |-> <<>>]

\* read_flash with its arguments address and size
ReadFlashJob(address, size) ==
    [cmd |-> "read_flash", status |-> "ok", items |-> <<>>, entry |-> 0, mode |-> "",
     info |-> <<address, size>>]

Jobs ==
    {LoadRamJob(f) : f \in RamFiles}
    \cup {WriteFlashJob(items, "qio", 0) : items \in FlashFileLists}
    \cup {WriteFlashJob(items, "dio", 79) : items \in FlashFileLists}
    \cup {WriteFlashJob(<< <<0, Contents(ESP_FLASH_BLOCK + 1, TRUE)>> >>, mode, 17) :
             mode \in {"qout", "dout"}}
    \cup {EraseFlashJob}
    \cup {ReadFlashJob(a, n) : a \in {0, 4096}, n \in {0, 1, 1025}}

\* main() up to the first call on the connected device; an image file the
\* parser refuses ends load_ram here
TransferStart ==
    /\ xf_pc = "idle" /\ op_pc = "idle"
    /\ \E job \in Jobs :
          /\ xf_job' = job
          /\ IF job.status = "ok"
             THEN xf_pc' = "loop" /\ UNCHANGED <<op_pc, raised>>
             ELSE xf_pc' = "done" /\ op_pc' = "raise" /\ raised' = job.status
    /\ UNCHANGED <<xf_idx, xf_data, xf_seq, xf_todo, xf_log>>
    /\ UNCHANGED <<op_name, op_ctx, old_tmo, tmo_at_call, erase_in, exit_code>>
    /\ UNCHANGED <<framingVars, cmdVars, conVars, imgVars>>

\* the call c is made: its request goes through command()
SendCall(c) ==
    /\ IF c.name = "flash_begin"
       THEN FlashBeginEnter(c.args[1], c.args[2])
       ELSE /\ OpEnter(RequestOf(c), "main")
            /\ UNCHANGED <<old_tmo, erase_in>>
            /\ UNCHANGED <<conVars, imgVars>>
    /\ xf_log' = Append(IF op_pc = "ret" THEN Append(xf_log, AckEntry) ELSE xf_log,
                        SendEntry(packet'))

\* main() from the return of one call to the next call: the inner loop sends
\* the next block, the outer loop begins the next segment or file, and after
\* the loops come the calls that leave the download mode
TransferStep ==
    /\ xf_pc \in {"loop", "tail"}
    /\ op_pc \in {"idle", "ret"}
    /\ IF xf_pc = "loop" /\ xf_data # <<>>
       THEN /\ SendCall(BlockCall(xf_job, xf_job.items[xf_idx][1], xf_data, xf_seq))
            /\ xf_data' = RestAfterBlock(xf_job, xf_data)
            /\ xf_seq' = NextSeq(xf_seq)
            /\ UNCHANGED <<xf_pc, xf_job, xf_idx, xf_todo>>
       ELSE IF xf_pc = "loop" /\ xf_idx < Len(xf_job.items)
       THEN /\ SendCall(BeginCall(xf_job, xf_job.items[xf_idx + 1]))
            /\ xf_idx' = xf_idx + 1
            /\ xf_data' = xf_job.items[xf_idx + 1][2]
            /\ xf_seq' = 0
            /\ UNCHANGED <<xf_pc, xf_job, xf_todo>>
       ELSE LET todo == IF xf_pc = "loop" THEN TailCalls(xf_job) ELSE xf_todo
            IN  /\ todo # <<>>
                /\ SendCall(Head(todo))
                /\ xf_todo' = Tail(todo)
                /\ xf_pc' = "tail"
                /\ UNCHANGED <<xf_job, xf_idx, xf_data, xf_seq>>

\* the last call returned: the operation is done, or flash_read goes on to
\* read what the stub sends
TransferDone ==
    /\ xf_pc = "tail" /\ xf_todo = <<>> /\ op_pc = "ret"
    /\ xf_pc' = IF xf_job.cmd = "read_flash" THEN "frames" ELSE "done"
    /\ xf_log' = Append(xf_log, AckEntry)
    /\ UNCHANGED <<xf_job, xf_idx, xf_data, xf_seq, xf_todo>>
    /\ UNCHANGED <<framingVars, cmdVars, conVars, opVars, imgVars>>

\* the blocks of flash contents the stub sends
StubPayloads == {Contents(1024, FALSE), <<192, 219>> \o Contents(1022, TRUE)}

\* what arrives from the running stub for one pass of flash_read's loop: a
\* frame of one block; a frame without its opening or without its closing
\* delimiter; nothing; a frame cut short; a frame of one byte more; an illegal
\* escape
StubFrames ==
    {WriteBuf(p) : p \in StubPayloads}
    \cup {Tail(WriteBuf(p)) : p \in StubPayloads}
    \cup {<<192>> \o SlipEscape(p) : p \in StubPayloads}
    \cup {<<>>,
          SubSeq(WriteBuf(Contents(1024, FALSE)), 1, 10),
          WriteBuf(Contents(1025, FALSE)),
          <<192, 219, 1>>}

\* one pass of flash_read's loop: the opening delimiter is read from the
\* port, size bytes through read(), the closing delimiter from the port
FlashReadFrame ==
    /\ xf_pc = "frames" /\ op_pc = "ret"
    /\ xf_seq < div_roundup(xf_job.info[2], 1024)
    /\ \E f \in StubFrames :
          LET buf == inbuf \o f
              r == Read(Tail(buf), 1024)
              fail(msg) == /\ op_pc' = "raise" /\ raised' = "FatalError" /\ cmd_err' = msg
                           /\ UNCHANGED <<xf_pc, xf_data, xf_seq>>
          IN  /\ rx' = buf
              /\ IF buf = <<>> \/ Head(buf) # 192
                 THEN /\ fail("Invalid head of packet (sflash read)")
                      /\ inbuf' = IF buf = <<>> THEN <<>> ELSE Tail(buf)
                 ELSE IF r.status = "hang"
                 THEN /\ xf_pc' = "hang" /\ inbuf' = <<>>
                      /\ UNCHANGED <<op_pc, raised, cmd_err, xf_data, xf_seq>>
                 ELSE IF r.status = "raise"
                 THEN fail("Invalid SLIP escape") /\ inbuf' = r.rest
                 ELSE IF r.rest = <<>> \/ Head(r.rest) # 192
                 THEN /\ fail("Invalid end of packet (sflash read)")
                      /\ inbuf' = IF r.rest = <<>> THEN <<>> ELSE Tail(r.rest)
                 ELSE /\ xf_data' = xf_data \o r.data
                      /\ xf_seq' = xf_seq + 1
                      /\ inbuf' = Tail(r.rest)
                      /\ UNCHANGED <<xf_pc, op_pc, raised, cmd_err>>
    /\ UNCHANGED <<packet, wire, rd_pc, rd_len, rd_b, rd_err, rd_last, rd_timeouts>>
    /\ UNCHANGED <<cmd_pc, cmd_op, retries, cmd_ret, last_resp, n_read, n_mismatch, n_written>>
    /\ UNCHANGED <<op_name, op_ctx, old_tmo, tmo_at_call, erase_in, exit_code>>
    /\ UNCHANGED <<xf_job, xf_idx, xf_todo, xf_log>>
    /\ UNCHANGED <<conVars, imgVars>>

\* flash_read returns data after count passes, and main() writes its first
\* args.size bytes to the file
FlashReadReturn ==
    /\ xf_pc = "frames" /\ op_pc = "ret"
    /\ xf_seq = div_roundup(xf_job.info[2], 1024)
    /\ xf_pc' = "done"
    /\ file' = Slice(xf_data, 0, xf_job.info[2])
    /\ UNCHANGED <<image, parsed, img_pc, add_in, n_add>>
    /\ UNCHANGED <<xf_job, xf_idx, xf_data, xf_seq, xf_todo, xf_log>>
    /\ UNCHANGED <<framingVars, cmdVars, conVars, opVars>>

\* the process ends once main() returned or an exception left it
TransferEnd ==
    /\ xf_pc = "done" \/ op_pc = "raise"
    /\ ProgramEnd

NextTransfer ==
    \/ TransferStart
    \/ TransferStep
    \/ TransferDone
    \/ FlashReadFrame
    \/ FlashReadReturn
    \/ EraseReceive
    \/ OpStatusCheck
    \/ OpCommandRaised
    \/ TransferEnd

SpecTransfer == InitOps /\ [][NextTransfer]_vars

-----------------------------------------------------------------------------
(* Claims about the framing layer, checked under SpecFraming *)

RECURSIVE EscapedBytewise(_)
\* the escaping the protocol defines, byte by byte
EscapedBytewise(p) ==
    IF p = <<>> THEN <<>>
    ELSE (IF Head(p) = 192 THEN <<219, 220>>
          ELSE IF Head(p) = 219 THEN <<219, 221>>
          ELSE <<Head(p)>>) \o EscapedBytewise(Tail(p))

Range(s) == {s[i] : i \in 1..Len(s)}

\* C1: framing round trip: feeding the bytes write(b) emitted between its two
\* delimiters into read(len(b)) returns exactly b; the read neither raises nor
\* runs out of input on the way.
C1_FramingRoundTrip ==
    (wire # <<>> /\ rd_pc # "idle") =>
        /\ rd_pc # "raise"
        /\ rd_timeouts = 0
        /\ rd_pc = "ret" => (rd_b = packet /\ inbuf = <<>>)

C1_Witness ==
    /\ wire # <<>> /\ rd_pc = "ret" /\ rd_b = packet
    /\ 192 \in Range(packet) /\ 219 \in Range(packet) /\ 220 \in Range(packet)

\* C8: read(n) always terminates: it returns exactly n bytes, or, once a port
\* read has delivered no byte before n bytes arrived, it has failed with an
\* error instead of continuing to wait.
C8_ReadTerminates ==
    /\ rd_pc = "ret" => Len(rd_b) = rd_len
    /\ rd_timeouts > 0 => rd_pc = "raise"

\* C9: the escape byte 0xDB followed by anything other than 0xDC or 0xDD (or by
\* no byte at all) makes read raise the escape-sequence error and return
\* nothing; 0xDB 0xDC decodes to 0xC0 and 0xDB 0xDD to 0xDB, each adding
\* exactly one byte to the data read.
C9_IllegalEscape ==
    /\ [](/\ (rd_last # <<>> /\ rd_last[1] = 219
                /\ (Len(rd_last) = 1 \/ rd_last[2] \notin {220, 221}))
             => (rd_pc = "raise" /\ rd_err = "Invalid SLIP escape")
          /\ rd_last = <<219, 220>> => (rd_pc \in {"loop", "ret"} /\ rd_b[Len(rd_b)] = 192)
          /\ rd_last = <<219, 221>> => (rd_pc \in {"loop", "ret"} /\ rd_b[Len(rd_b)] = 219)
          /\ rd_pc = "raise" => (rd_last # <<>> /\ rd_last[1] = 219))
    /\ [][(rd_pc = "loop" /\ Len(inbuf) >= 2 /\ inbuf[1] = 219 /\ inbuf[2] \in {220, 221})
             => (Len(rd_b') = Len(rd_b) + 1 /\ inbuf' = Tail(Tail(inbuf)))]_vars

C9_Witness ==
    /\ rd_pc = "raise" /\ rd_err = "Invalid SLIP escape"
    /\ rd_last = <<219>> /\ rd_b = <<192>> /\ rd_len = 2

\* C10: the frame write emits starts with 0xC0, ends with 0xC0 and holds no
\* other 0xC0: between the delimiters every 0xC0 of the packet stands as
\* 0xDB 0xDC, every 0xDB as 0xDB 0xDD, every other byte as itself, and nothing
\* is escaped twice.
C10_FrameWellFormed ==
    wire # <<>> =>
        /\ Len(wire) >= 2
        /\ wire[1] = 192 /\ wire[Len(wire)] = 192
        /\ \A i \in 2..(Len(wire) - 1) : wire[i] # 192
        /\ SubSeq(wire, 2, Len(wire) - 1) = EscapedBytewise(packet)

C10_Witness ==
    /\ wire = <<192, 219, 220, 219, 221, 220, 192>>
    /\ packet = <<192, 219, 220>>

-----------------------------------------------------------------------------
(* Claims about the command engine, checked under SpecCommand *)

\* C4: when every well-formed response carries an opcode different from op,
\* command(op, ...) raises the response-mismatch error after reading exactly
\* 100 responses, not fewer and not more; when a response with opcode op
\* arrives among the first 100, it returns that response's (value, body) and
\* the mismatching responses before it are discarded.
C4_RetryBudget ==
    /\ n_read <= 100
    /\ cmd_err = MismatchMessage => (cmd_pc = "raise" /\ n_read = 100 /\ n_mismatch = 100)
    /\ (cmd_op # None /\ n_mismatch >= 100) => (cmd_pc = "raise" /\ cmd_err = MismatchMessage)
    /\ (cmd_pc = "recv" /\ cmd_op # None) => (n_mismatch = n_read /\ n_read < 100)
    /\ (cmd_pc = "ret" /\ cmd_op # None) =>
          /\ last_resp[1] = cmd_op
          /\ cmd_ret = <<last_resp[2], last_resp[3]>>
          /\ n_read = n_mismatch + 1

C4_Witness ==
    /\ cmd_pc = "raise" /\ cmd_err = MismatchMessage
    /\ cmd_op = ESP_READ_REG /\ n_read = 100 /\ n_mismatch = 100 /\ n_written = 1

\* the last receive_response() call returned a response to command()
ResponseAccepted ==
    \/ cmd_pc = "ret"
    \/ cmd_pc = "recv" /\ n_read > 0
    \/ cmd_pc = "raise" /\ cmd_err = MismatchMessage

\* the port input began with a delimiter and a full header whose direction
\* byte is not 0x01
WrongDirection(buf) ==
    /\ buf # <<>> /\ buf[1] = 192
    /\ Read(Tail(buf), 8).status = "ok"
    /\ Read(Tail(buf), 8).data[1] # 1

\* C11: receive_response accepts a response only when the frame begins with
\* 0xC0, its header's direction byte is 0x01, its body has exactly the length
\* the header gives and it ends with 0xC0; a direction byte other than 0x01
\* makes command raise at once, and the frame is not counted as an opcode
\* mismatch nor taken from the retry budget.
C11_DirectionChecked ==
    /\ [](ResponseAccepted =>
             /\ Len(rx) >= 10
             /\ rx[1] = 192 /\ rx[Len(rx)] = 192
             /\ SubSeq(rx, 2, Len(rx) - 1) =
                   EscapedBytewise(<<1, last_resp[1]>> \o PackU16(Len(last_resp[3]))
                                   \o PackU32(last_resp[2]) \o last_resp[3]))
    /\ [](WrongDirection(rx) =>
             (cmd_pc = "raise" /\ cmd_err = "Invalid response to command"))
    /\ [][(cmd_pc = "recv" /\ WrongDirection(rx')) =>
             (/\ cmd_pc' = "raise"
              /\ retries' = retries /\ n_read' = n_read /\ n_mismatch' = n_mismatch
              /\ cmd_ret' = NoValue)]_vars

C11_Witness ==
    /\ cmd_pc = "raise" /\ cmd_err = "Invalid response to command"
    /\ cmd_op = ESP_MEM_END /\ n_mismatch = 3 /\ retries = 97
    /\ WrongDirection(rx) /\ Read(Tail(rx), 8).data[2] = ESP_READ_REG

-----------------------------------------------------------------------------
(* Claims about connect(), checked under SpecConnect *)

\* C5: connect makes at most 16 sync attempts, 4 reset pulses each followed by
\* up to 4 attempts; it returns at the first sync that succeeds, without a
\* further pulse or attempt and with the timeout at the normal 5 s, and it
\* raises the connect-failed error exactly when all 16 sync attempts failed.
C5_ConnectAttempts ==
    /\ syncs <= 16 /\ pulses <= 4 /\ syncs <= 4 * pulses
    /\ sync_fail <= syncs /\ syncs <= sync_fail + 1
    /\ pulses > 0 => syncs > 4 * (pulses - 1) - (IF con_pc = "flush" THEN 1 ELSE 0)
    /\ con_pc = "ret" => (timeout = 5000 /\ syncs = sync_fail + 1 /\ cmd_pc = "idle")
    /\ con_pc = "raise" <=> sync_fail = 16
    /\ con_pc = "raise" => (syncs = 16 /\ pulses = 4)

C5_Witness ==
    /\ con_pc = "ret" /\ syncs = 16 /\ sync_fail = 15 /\ pulses = 4 /\ timeout = 5000

\* C21: sync writes exactly one request, opcode SYNC with the 36-byte payload
\* 07 07 12 20 and 32 bytes 0x55, and after its matching response makes 7
\* further reads of one response each, writing nothing and accepting any
\* opcode; sync returns only after these 8 well-formed responses, and an
\* error raised by any of the 8 reads ends the sync as failed at once.
C21_SyncSequence ==
    /\ [](con_pc = "sync" =>
             /\ drained \in 0..7
             /\ drained = 0 =>
                   /\ cmd_op = 8 /\ n_written = 1
                   /\ packet = <<0, 8, 36, 0, 0, 0, 0, 0, 7, 7, 18, 32>> \o [i \in 1..32 |-> 85]
                   /\ Len(packet) = 8 + 36
             /\ drained > 0 =>
                   /\ cmd_op = None /\ n_written = 0
                   /\ n_read <= 1 /\ n_mismatch = 0 /\ retries = 100
                   /\ cmd_pc = "ret" <=> n_read = 1)
    /\ [](con_pc = "ret" => (drained = 7 /\ sync_fail = syncs - 1))
    /\ [][(con_pc = "sync" /\ con_pc' = "ret") =>
             (drained = 7 /\ cmd_pc = "ret" /\ n_read = 1 /\ wire' = wire)]_vars
    /\ [][(con_pc = "sync" /\ drained' # drained) =>
             (/\ drained' = drained + 1 /\ cmd_pc = "ret"
              /\ last_resp # NoValue /\ (drained = 0 => last_resp[1] = 8)
              /\ wire' = wire /\ packet' = packet)]_vars
    /\ [][(con_pc = "sync" /\ cmd_pc = "raise") =>
             (con_pc' # "ret" /\ con_pc' # "sync" /\ sync_fail' = sync_fail + 1
              /\ drained' = drained /\ n_read' = n_read)]_vars

C21_Witness ==
    /\ con_pc = "ret" /\ drained = 7 /\ syncs = 2 /\ sync_fail = 1
    /\ last_resp[1] = 10 /\ n_written = 0

\* C22: one request outstanding: a command() call with an opcode writes exactly
\* one request frame, before it reads anything, and writes nothing while it
\* reads and retries; command() without opcode writes nothing; a request is
\* written only when no call is under way, the call before having returned its
\* matching response or raised.
C22_OneRequestOutstanding ==
    /\ [](cmd_pc # "idle" =>
             /\ n_written = (IF cmd_op = None THEN 0 ELSE 1)
             /\ cmd_op # None => wire = WriteBuf(packet) /\ packet[2] = cmd_op
             /\ cmd_pc = "ret" => (cmd_op = None \/ last_resp[1] = cmd_op))
    /\ [][cmd_pc = "recv" =>
             (n_written' = n_written /\ wire' = wire /\ packet' = packet)]_vars
    /\ [][(n_written' # n_written \/ wire' # wire \/ packet' # packet) =>
             (/\ cmd_pc \in {"idle", "ret"}
              /\ cmd_pc' = "recv" /\ n_read' = 0 /\ rx' = <<>>)]_vars
    /\ [][(cmd_pc' = "recv" /\ n_read' = 0 /\ rx' = <<>> /\ cmd_pc # "recv") =>
             (/\ cmd_pc \in {"idle", "ret"}
              /\ cmd_pc = "ret" => (cmd_op = None \/ last_resp[1] = cmd_op))]_vars

C22_Witness ==
    /\ syncs = 2 /\ sync_fail = 1 /\ cmd_op = 8 /\ n_written = 1
    /\ n_mismatch = 2 /\ n_read = 3 /\ cmd_pc = "ret"

\* the two control lines: reset on RTS, boot-select on DTR; TRUE is asserted
LineState(dtr, rts) == [dtr |-> dtr, rts |-> rts]

RECURSIVE LineStates(_, _)
\* the states of the two lines after each of the calls, from the state st
LineStates(calls, st) ==
    IF calls = <<>> THEN <<>>
    ELSE LET c == Head(calls)
             nx == IF c[1] = "DTR" THEN [st EXCEPT !.dtr = c[2]] ELSE [st EXCEPT !.rts = c[2]]
         IN  <<nx>> \o LineStates(Tail(calls), nx)

\* the states the lines go through in a pulse that starts with both inactive
PulseStates == <<LineState(FALSE, FALSE)>> \o LineStates(lines, LineState(FALSE, FALSE))

\* C20 as claimed: in every outer attempt the lines go through both inactive,
\* reset and boot-select both asserted, both released, and boot-select
\* asserted again, in that order, before the first sync of the attempt;
\* reset is released while boot-select is held, and boot-select is asserted
\* when sync starts.
C20_HandshakeLineSequence ==
    (pulses > 0 /\ con_pc \in {"flush", "sync"}) =>
        /\ \E a, b, c, d \in 1..Len(PulseStates) :
              /\ a < b /\ b < c /\ c < d
              /\ PulseStates[a] = LineState(FALSE, FALSE)
              /\ PulseStates[b] = LineState(TRUE, TRUE)
              /\ PulseStates[c] = LineState(FALSE, FALSE)
              /\ PulseStates[d].dtr
        /\ \E k \in 2..Len(PulseStates) :
              PulseStates[k - 1].rts /\ ~PulseStates[k].rts /\ PulseStates[k].dtr
        /\ PulseStates[Len(PulseStates)].dtr

\* C20: in every outer attempt, whatever the lines were before, connect
\* takes them through boot-select released with reset asserted, then
\* boot-select asserted with reset still asserted, then reset released with
\* boot-select held, then boot-select released, in that order and
\* before the first sync of the attempt is sent; reset is released while
\* boot-select is held, and both lines are inactive when sync starts.
C20_ResetPulseSequence ==
    /\ [](pulses > 0 =>
             \A dtr0, rts0 \in BOOLEAN :
                 LET st == LineStates(lines, LineState(dtr0, rts0))
                 IN  /\ Len(st) = 5
                     /\ SubSeq(st, 2, 5) = <<LineState(FALSE, TRUE), LineState(TRUE, TRUE),
                                              LineState(TRUE, FALSE), LineState(FALSE, FALSE)>>)
    /\ [](con_pc \in {"flush", "sync"} => (pulses = outer + 1 /\ syncs <= 4 * pulses))
    /\ [][syncs' = syncs + 1 =>
             (/\ pulses = outer + 1 /\ syncs >= 4 * outer
              /\ LineStates(lines, LineState(TRUE, TRUE))[5] = LineState(FALSE, FALSE))]_vars

C20_Witness ==
    /\ con_pc = "sync" /\ pulses = 2 /\ syncs = 5 /\ outer = 1
    /\ LineStates(lines, LineState(TRUE, TRUE))[4] = LineState(TRUE, FALSE)

-----------------------------------------------------------------------------
(* Claims about flash_begin and the primitive operations *)

\* the request last written, as the device decodes it from the wire
SentPacket == Read(SubSeq(wire, 2, Len(wire) - 1), Len(packet)).data

\* the i-th 32-bit field of the body of the request last written
SentField(i) == UnpackU32(SubSeq(SentPacket, 8 + 4 * i - 3, 8 + 4 * i))

Min(a, b) == IF a <= b THEN a ELSE b

\* the erase size as the specification words it
SpecifiedEraseSize(S, O) ==
    LET total == (S + 4095) \div 4096
        head == Min(16 - ((O \div 4096) % 16), total)
    IN  IF total - 2 * head > 0 THEN (total - head) * 4096
        ELSE ((total + 1) \div 2) * 4096

\* C2: for every requested size S and offset O, the size field flash_begin
\* sends is (total - head) * 4096 when total - 2 * head > 0 and
\* ceil(total / 2) * 4096 otherwise, with total = ceil(S / 4096) and
\* head = min(16 - ((O div 4096) mod 16), total); (4096, 0) gives 4096,
\* (100000, 0) gives 53248 and (1000000, 0) gives 937984.  Checked under
\* SpecErase.
C2_EraseSize ==
    (op_name = "flash_begin" /\ op_pc # "idle") =>
        /\ SentPacket[2] = 2
        /\ SentField(1) = SpecifiedEraseSize(erase_in[1], erase_in[2])
        /\ SentField(4) = erase_in[2]
        /\ erase_in = <<4096, 0>> => SentField(1) = 4096
        /\ erase_in = <<100000, 0>> => SentField(1) = 53248
        /\ erase_in = <<1000000, 0>> => SentField(1) = 937984

C2_Witness ==
    /\ op_name = "flash_begin" /\ op_pc = "ret"
    /\ erase_in = <<1000000, 0>> /\ SentField(1) = 937984

\* C6: the read timeout an operation changed is restored on every exit path,
\* the raising ones included: after flash_begin exits in any way the timeout
\* equals the value it had when flash_begin was called.  Checked under SpecOps.
C6_TimeoutRestored ==
    (op_name = "flash_begin" /\ op_pc \in {"ret", "raise", "exit"}) => timeout = tmo_at_call

\* C7: a response body other than the two-byte success code makes the
\* operation raise FatalError, which the top level reports and turns into
\* exit code 2; no such failure is swallowed or surfaces as another class of
\* error.  Checked under SpecOps.
C7_StatusFailureFatal ==
    /\ (op_pc = "raise" /\ cmd_ret # NoValue /\ cmd_ret[2] # <<0, 0>>) => raised = "FatalError"
    /\ (op_pc = "exit" /\ cmd_ret # NoValue /\ cmd_ret[2] # <<0, 0>>) =>
          (raised = "FatalError" /\ exit_code = 2)
    /\ (op_pc = "ret" /\ cmd_ret # NoValue) => cmd_ret[2] = <<0, 0>>

-----------------------------------------------------------------------------
(* Claims about the image codec, checked under SpecImage *)

\* the images the round trip is claimed for
WithinParserBounds(img) ==
    /\ Len(img.segments) <= 16
    /\ \A i \in 1..Len(img.segments) :
          /\ img.segments[i].addr >= 1073610752
          /\ img.segments[i].addr <= 1075838976
          /\ img.segments[i].size <= 65536

\* C3: image round trip: for an image with at most 16 segments, addresses in
\* [0x3ffe0000, 0x40200000] and sizes up to 65536, parsing the file save wrote
\* yields the same flash_mode, flash_size_freq, entry point and ordered list of
\* segments, and the checksum recomputed over the parsed segments equals the
\* stored trailing checksum byte.
C3_ImageRoundTrip ==
    (img_pc = "parsed" /\ WithinParserBounds(image)) =>
        /\ parsed.status = "ok"
        /\ parsed.flash_mode = image.flash_mode
        /\ parsed.flash_size_freq = image.flash_size_freq
        /\ parsed.entrypoint = image.entrypoint
        /\ parsed.segments = image.segments
        /\ SegmentsChecksum(parsed.segments, 239) = parsed.checksum
        /\ parsed.checksum = file[Len(file)]

C3_Witness ==
    /\ img_pc = "parsed" /\ WithinParserBounds(image) /\ parsed.status = "ok"
    /\ Len(parsed.segments) = 2
    /\ parsed.segments[1].addr = 1075838976 /\ parsed.segments[1].size = 8
    /\ parsed.segments[2].data = <<255, 255, 255, 255>>
    /\ parsed.entrypoint = 1074790404 /\ parsed.checksum # 239

\* the segment header at bytes pos+1..pos+8 of f is outside the limits
OutOfLimits(f, pos) ==
    \/ UnpackU32(SubSeq(f, pos + 1, pos + 4)) < 1073610752
    \/ UnpackU32(SubSeq(f, pos + 1, pos + 4)) > 1075838976
    \/ UnpackU32(SubSeq(f, pos + 5, pos + 8)) > 65536

\* C12: parsing rejects early: with a segment count above 16 or a magic byte
\* other than 0xE9 it fails having read the 8-byte header only; with a segment
\* header whose size is above 65536 or whose address is outside
\* [0x3ffe0000, 0x40200000] it fails having read up to the end of that
\* segment header and none of the segment's data; the addresses 0x3ffe0000 and
\* 0x40200000 and the size 65536 are accepted.
C12_ParseRejectsEarly ==
    (img_pc = "loaded" /\ Len(file) >= 8) =>
        /\ (file[1] # 233 \/ file[2] > 16) <=> parsed.err = "Invalid firmware image"
        /\ parsed.err = "Invalid firmware image" =>
              (parsed.status = "FatalError" /\ parsed.nread = 8)
        /\ (file[1] = 233 /\ file[2] \in 1..16 /\ Len(file) >= 16) =>
              LET size1 == UnpackU32(SubSeq(file, 13, 16))
                  next == 16 + size1
              IN  /\ OutOfLimits(file, 8) =>
                        /\ parsed.status = "FatalError" /\ parsed.err = "Suspicious segment"
                        /\ parsed.nread = 16
                  /\ (~OutOfLimits(file, 8) /\ file[2] = 1) => parsed.err # "Suspicious segment"
                  /\ (~OutOfLimits(file, 8) /\ file[2] = 1 /\ Len(file) > next) =>
                        (parsed.status = "ok" /\ parsed.segments[1].size = size1)
                  /\ (~OutOfLimits(file, 8) /\ file[2] = 2 /\ Len(file) >= next + 8
                         /\ OutOfLimits(file, next)) =>
                        /\ parsed.status = "FatalError" /\ parsed.err = "Suspicious segment"
                        /\ parsed.nread = next + 8

C12_Witness ==
    /\ img_pc = "loaded" /\ parsed.err = "Suspicious segment" /\ parsed.nread = 16
    /\ Len(file) > 70000 /\ UnpackU32(SubSeq(file, 13, 16)) = 70000

RECURSIVE Payload(_)
\* the payload bytes of the segments, in file order
Payload(segs) == IF segs = <<>> THEN <<>> ELSE Head(segs).data \o Payload(Tail(segs))

RECURSIVE XorFold(_, _)
\* seed xor-ed with every byte of bytes
XorFold(seed, bytes) ==
    IF bytes = <<>> THEN seed ELSE XorFold(Xor(seed, Head(bytes)), Tail(bytes))

\* C13: the checksum byte save writes, the last of the file, is 0xEF xor-ed
\* with every payload byte of every segment in file order and with no byte of
\* the file header or of a segment header; for the image with the segment
\* 00 00 00 00 at 0x40100000 and the segment FF FF FF FF at 0x3FFE8000 it is
\* 0xEF.
C13_ChecksumOverPayload ==
    img_pc \in {"saved", "parsed"} =>
        /\ file[Len(file)] = XorFold(239, Payload(image.segments))
        /\ (/\ Len(image.segments) = 2
            /\ image.segments[1] = [addr |-> 1074790400, size |-> 4, data |-> <<0, 0, 0, 0>>]
            /\ image.segments[2] = [addr |-> 1073643520, size |-> 4,
                                    data |-> <<255, 255, 255, 255>>])
           => file[Len(file)] = 239

C13_Witness ==
    /\ img_pc = "saved" /\ Len(image.segments) = 2
    /\ image.segments[1] = [addr |-> 1074790400, size |-> 4, data |-> <<0, 0, 0, 0>>]
    /\ image.segments[2] = [addr |-> 1073643520, size |-> 4, data |-> <<255, 255, 255, 255>>]
    /\ file[Len(file)] = 239

RECURSIVE EndOfSegments(_)
\* the file position after the header and the segments
EndOfSegments(segs) ==
    IF segs = <<>> THEN 8 ELSE EndOfSegments(Tail(segs)) + 8 + Len(Head(segs).data)

\* C14: the file save writes has a length that is a multiple of 16 and the
\* checksum is its last byte: header and segments end at position p, then
\* come 15 - (p mod 16) padding bytes and the one checksum byte; the parser
\* skips as many bytes and reads the same byte as the checksum.
C14_FileAligned ==
    img_pc \in {"saved", "parsed"} =>
        LET p == EndOfSegments(image.segments)
        IN  /\ Len(file) % 16 = 0
            /\ Len(file) = p + (15 - (p % 16)) + 1
            /\ SubSeq(file, p + 1, Len(file) - 1) = [i \in 1..(15 - (p % 16)) |-> 0]
            /\ file[Len(file)] = SegmentsChecksum(image.segments, 239)
            /\ (img_pc = "parsed" /\ parsed.status = "ok") =>
                  /\ parsed.nread = p + 1
                  /\ parsed.checksum = file[p + (15 - (p % 16)) + 1]

C14_Witness ==
    /\ img_pc = "parsed" /\ parsed.status = "ok"
    /\ EndOfSegments(image.segments) = 36 /\ Len(file) = 48
    /\ parsed.checksum = file[48] /\ parsed.checksum # 0

\* C15: every stored segment has data of a length that is non-zero, divisible
\* by 4 and equal to its recorded size; an add_segment call with empty data
\* leaves the segment list as it was, and a call with non-empty data appends
\* exactly one segment, whose data is the input followed by 0 to 3 zero bytes,
\* and leaves the earlier segments as they were.
C15_AddSegment ==
    /\ [](\A i \in 1..Len(image.segments) :
             /\ Len(image.segments[i].data) > 0
             /\ Len(image.segments[i].data) % 4 = 0
             /\ image.segments[i].size = Len(image.segments[i].data))
    /\ [][n_add' = n_add + 1 =>
             LET data == add_in'[2]
                 pad == (4 - (Len(data) % 4)) % 4
             IN  IF Len(data) = 0
                 THEN image'.segments = image.segments
                 ELSE /\ Len(image'.segments) = Len(image.segments) + 1
                      /\ SubSeq(image'.segments, 1, Len(image.segments)) = image.segments
                      /\ image'.segments[Len(image'.segments)] =
                            [addr |-> add_in'[1], size |-> Len(data) + pad,
                             data |-> data \o [i \in 1..pad |-> 0]]]_vars

C15_Witness ==
    /\ n_add = 2 /\ Len(image.segments) = 1
    /\ add_in[2] = <<>>
    /\ Len(image.segments[1].data) = 8 /\ image.segments[1].data[6] # 0
    /\ image.segments[1].data[7] = 0 /\ image.segments[1].data[8] = 0

\* C16: an image never holds more than 16 segments, whether parsed from a file
\* or built by add_segment calls, so that every file save writes passes the
\* parser's test of the segment count.  Checked under SpecMakeImage.
C16_AtMost16Segments ==
    /\ Len(image.segments) <= 16
    /\ img_pc \in {"saved", "parsed"} => file[2] <= 16
    /\ img_pc = "parsed" => parsed.err # "Invalid firmware image"

-----------------------------------------------------------------------------
(* Claims about load_ram, write_flash and erase_flash, checked under
   SpecTransfer *)

\* the 32-bit words of the body of the request last written
SentPacketFields == Fields(SubSeq(packet, 9, Len(packet)))

\* indices of the requests in the log
SendIndices == {i \in 1..Len(xf_log) : xf_log[i].kind = "send"}

\* indices of the block requests (RAM data, flash data) in the log
BlockIndices == {i \in SendIndices : xf_log[i].op \in {7, 3}}

\* the command in progress is cmd
Running(cmd) == xf_job # NoValue /\ xf_job.cmd = cmd

\* the opcode of the request that ends the operation
FinishOp == IF Running("write_flash") /\ xf_job.mode # "dio" THEN 4 ELSE 6

RECURSIVE BlocksOf(_, _)
\* the blocks of bs bytes that the items take, each item on its own
BlocksOf(items, bs) ==
    IF items = <<>> THEN 0
    ELSE ((Len(Head(items)[2]) + bs - 1) \div bs) + BlocksOf(Tail(items), bs)

\* C17: erase_flash sends flash-begin, a RAM-begin of size zero and a
\* RAM-finish with the entry point 0x40004984, and once that last request is
\* sent it neither waits for a response nor checks one: no answer and a
\* non-zero status alike leave it without an error.
C17_EraseFireAndForget ==
    (Running("erase_flash") /\ op_name = "mem_finish") =>
        /\ SentPacketFields = <<0, 1073760644>>
        /\ op_pc # "raise"
        /\ exit_code \in {None, 0}

\* C18: in load_ram and write_flash every request after the first is sent
\* only when the request before it was answered with the success code; a
\* block follows the begin of its segment or file with sequence number 0 or
\* the block before it with the next sequence number; and the finishing
\* request is the last request, sent once, after as many blocks as the
\* segments or files take.
C18_TransferOrdering ==
    (Running("load_ram") \/ Running("write_flash")) =>
        /\ xf_log # <<>> => xf_log[1].kind = "send"
        /\ \A i \in SendIndices : i > 1 =>
              /\ i > 2
              /\ xf_log[i - 1].kind = "ack" /\ xf_log[i - 1].status = <<0, 0>>
              /\ xf_log[i - 2].kind = "send" /\ xf_log[i - 2].op = xf_log[i - 1].op
        /\ \A i \in BlockIndices :
              /\ i > 2
              /\ \/ /\ xf_log[i - 2].op = (IF xf_log[i].op = 7 THEN 5 ELSE 2)
                    /\ xf_log[i].fields[2] = 0
                 \/ /\ xf_log[i - 2].op = xf_log[i].op
                    /\ xf_log[i].fields[2] = xf_log[i - 2].fields[2] + 1
        /\ \A i \in SendIndices : xf_log[i].op = FinishOp =>
              /\ \A j \in SendIndices : j <= i
              /\ Cardinality(BlockIndices) =
                    BlocksOf(xf_job.items, IF Running("load_ram") THEN 6144 ELSE 1024)
        /\ (xf_pc = "done" /\ xf_job.status = "ok") =>
              /\ Cardinality({i \in SendIndices : xf_log[i].op = FinishOp}) = 1
              /\ xf_log[Len(xf_log)].kind = "ack" /\ xf_log[Len(xf_log)].op = FinishOp

C18_Witness ==
    /\ Running("load_ram") /\ xf_pc = "done" /\ Len(xf_job.items) = 2
    /\ Cardinality(BlockIndices) = 3
    /\ \E i \in BlockIndices : xf_log[i].fields[2] = 1 /\ xf_log[i].n = 4
    /\ exit_code = 0

\* the begin request of a segment (load_ram) or a file (write_flash) is at i
ItemBegin(i) ==
    /\ i \in SendIndices
    /\ xf_log[i].op = (IF Running("load_ram") THEN 5 ELSE 2)
    /\ Cardinality({j \in SendIndices : j <= i /\ xf_log[j].op = xf_log[i].op})
          <= Len(xf_job.items)

\* the requests after the begin at i up to the next that is no block
BlocksAfter(i) ==
    {k \in BlockIndices : k > i /\ \A j \in SendIndices : (i < j /\ j < k) => j \in BlockIndices}

\* C19: the begin request declares the transfer it starts: once the blocks of
\* a segment or file are sent, the block count field of its mem_begin or
\* flash_begin equals the number of block requests sent after it, and the
\* block size field equals the data size of each of these blocks.
C19_BeginDeclaresTransfer ==
    (Running("load_ram") \/ Running("write_flash")) =>
        \A i \in 1..Len(xf_log) :
            (ItemBegin(i) /\ \E j \in SendIndices \ BlockIndices : j > i) =>
                /\ xf_log[i].fields[2] = Cardinality(BlocksAfter(i))
                /\ xf_log[i].fields[3] = (IF Running("load_ram") THEN 6144 ELSE 1024)
                /\ \A k \in BlocksAfter(i) : xf_log[k].n = xf_log[i].fields[3]


-----------------------------------------------------------------------------
(* Claims about the block requests, checked under SpecTransfer *)

\* seed xor-ed with every byte of bytes, bit by bit: a bit of the result is the
\* seed's bit flipped once for every byte that has the bit set
XorOfAll(seed, bytes) ==
    LET bit(v, k) == (v \div (2 ^ k)) % 2
        ones(k) == Cardinality({i \in 1..Len(bytes) : bit(bytes[i], k) = 1})
        out(k) == (bit(seed, k) + ones(k)) % 2
    IN  out(0) + 2 * out(1) + 4 * out(2) + 8 * out(3)
        + 16 * out(4) + 32 * out(5) + 64 * out(6) + 128 * out(7)

\* the data payload of the block request last written: what follows the
\* 8-byte header and the four 32-bit words of the body
BlockPayload == SubSeq(packet, 25, Len(packet))

\* C23: every mem_block and flash_block request carries in the checksum field
\* of its header the xor of the seed 0xEF with every byte of the data payload
\* as sent in that request (for flash the patched and padded block), and the
\* first word of its body is the length of that payload.
C23_BlockChecksum ==
    (packet # <<>> /\ packet[2] \in {7, 3}) =>
        /\ wire = WriteBuf(packet)
        /\ UnpackU32(SubSeq(packet, 5, 8)) = XorOfAll(239, BlockPayload)
        /\ UnpackU32(SubSeq(packet, 9, 12)) = Len(BlockPayload)
        /\ UnpackU16(SubSeq(packet, 3, 4)) = 16 + Len(BlockPayload)

C23_Witness ==
    /\ packet # <<>> /\ packet[2] = 3 /\ xf_job.mode = "dio" /\ xf_seq = 1
    /\ Len(xf_job.items[xf_idx][2]) = 1 /\ xf_job.items[xf_idx][1] = 0
    /\ SubSeq(BlockPayload, 1, 5) = <<233, 2, 79, 255, 255>>
    /\ UnpackU32(SubSeq(packet, 5, 8)) = Xor(239, Xor(233, Xor(2, Xor(79, 255))))


\* the requests sent so far, in order
Sends == SelectSeq(xf_log, LAMBDA e : e.kind = "send")

\* the last k entries of the sequence s
LastOf(s, k) == SubSeq(s, Len(s) - k + 1, Len(s))

\* the send entry of a request with opcode op whose body is the words fields
Sent(op, fields) == [kind |-> "send", op |-> op, fields |-> fields, n |-> 0, status |-> <<>>]

\* C25: leaving flash mode after write_flash: in flash mode dio no FLASH_END
\* request is sent; the session ends with flash_begin(0, 0),
\* mem_begin(0, 0, 0, 0x40100000) and mem_finish(0x40000080) in that order; in
\* every other flash mode it ends with flash_begin(0, 0) followed by
\* flash_finish without reboot.  Each of these requests is sent after the one
\* before was acknowledged, and only begin and block requests precede them.
C25_LeavingFlashMode ==
    (xf_pc = "done" /\ op_pc = "ret" /\ xf_job.cmd = "write_flash") =>
        LET k == IF xf_job.mode = "dio" THEN 3 ELSE 2
        IN  /\ Len(Sends) >= k
            /\ Len(xf_log) = 2 * Len(Sends)
            /\ \A i \in 1..Len(Sends) :
                   xf_log[2 * i - 1].kind = "send" /\ xf_log[2 * i].kind = "ack"
            /\ \A i \in 1..(Len(Sends) - k) : Sends[i].op \in {2, 3}
            /\ IF xf_job.mode = "dio"
               THEN /\ LastOf(Sends, 3) = <<Sent(2, <<0, 512, 1024, 0>>),
                                            Sent(5, <<0, 0, 0, 1074790400>>),
                                            Sent(6, <<0, 1073741952>>)>>
                    /\ \A i \in 1..Len(Sends) : Sends[i].op # 4
               ELSE /\ LastOf(Sends, 2) = <<Sent(2, <<0, 512, 1024, 0>>), Sent(4, <<1>>)>>
                    /\ \A i \in 1..Len(Sends) : Sends[i].op \notin {5, 6}

C25_Witness ==
    /\ xf_pc = "done" /\ op_pc = "ret" /\ xf_job.cmd = "write_flash" /\ xf_job.mode = "dio"
    /\ Len(xf_job.items) = 2 /\ Len(Sends) = 8
    /\ Sends[5].op = 3 /\ Sends[6].op = 2 /\ Sends[8].op = 6


\* the file write_flash is sending and the address it is written at
CurrentFile == xf_job.items[xf_idx][2]
CurrentAddress == xf_job.items[xf_idx][1]

\* the 0x400 payload bytes block seq of a file has to carry: the file's bytes,
\* 0xFF after its end, and the two flash parameter bytes at offsets 2 and 3 of
\* block 0 of a file at address 0 that starts with 0xE9
SpecifiedBlock(data, address, seq, flash_info) ==
    [i \in 1..1024 |->
        IF address = 0 /\ seq = 0 /\ data[1] = 233 /\ i \in {3, 4}
        THEN flash_info[i - 2]
        ELSE IF seq * 1024 + i <= Len(data) THEN data[seq * 1024 + i] ELSE 255]

\* C26: write_flash sends for each file of length L exactly ceil(L/0x400)
\* flash_block requests of exactly 0x400 payload bytes each, after a
\* flash_begin for the size ceil(L/0x400)*0x400 at the file's address; the
\* payload is the file's bytes, filled up with 0xFF, with bytes 2 and 3 of
\* block 0 replaced by the flash mode and size/frequency bytes when the file
\* is written at address 0 and starts with 0xE9.
C26_FlashBlocks ==
    (xf_job # NoValue /\ xf_job.cmd = "write_flash" /\ xf_pc = "loop" /\ xf_idx > 0) =>
        LET L == Len(CurrentFile)
            blocks == (L + 1023) \div 1024
        IN  /\ xf_seq <= blocks
            /\ Len(xf_data) = (IF L > 1024 * xf_seq THEN L - 1024 * xf_seq ELSE 0)
            /\ xf_data = <<>> <=> xf_seq = blocks
            /\ xf_seq = 0 =>
                  /\ packet[2] = 2
                  /\ erase_in = <<blocks * 1024, CurrentAddress>>
                  /\ UnpackU32(SubSeq(packet, 21, 24)) = CurrentAddress
            /\ xf_seq > 0 =>
                  /\ packet[2] = 3
                  /\ UnpackU32(SubSeq(packet, 13, 16)) = xf_seq - 1
                  /\ Len(BlockPayload) = 1024
                  /\ BlockPayload = SpecifiedBlock(CurrentFile, CurrentAddress, xf_seq - 1,
                                                   xf_job.info)


-----------------------------------------------------------------------------
(* Claims about flash_read, checked under SpecTransfer *)

\* read_flash is running, and the number of frames it asks the stub for
ReadingFlash == xf_job # NoValue /\ xf_job.cmd = "read_flash"
FrameCount == (xf_job.info[2] + 1023) \div 1024

\* the port input buf lacks the opening delimiter
NoOpening(buf) == buf = <<>> \/ buf[1] # 192

\* the port input buf is an opened frame of one whole block that lacks the
\* closing delimiter
NoClosing(buf) == \E p \in StubPayloads : buf = <<192>> \o SlipEscape(p)

\* C24: flash_read(offset, size, count) issues flash_begin(0, 0), mem_begin,
\* one mem_block with sequence 0 carrying (offset, size, count) followed by
\* the stub, and mem_finish with entry 0x4010001c, in that order, each after
\* the one before was acknowledged; afterwards it writes nothing and reads
\* count frames from the port, each opened and closed by 0xC0 and holding
\* size unescaped bytes; it returns the count*size bytes in arrival order,
\* and a frame without its opening or its closing delimiter raises the fatal
\* error (exit code 2) and nothing is returned.
C24_FlashRead ==
    /\ [](ReadingFlash =>
             /\ xf_seq <= FrameCount
             /\ Len(xf_data) = 1024 * xf_seq
             /\ (packet # <<>> /\ packet[2] = 7) =>
                   /\ BlockPayload = PackU32(xf_job.info[1]) \o PackU32(1024)
                                       \o PackU32(FrameCount) \o SFLASH_STUB
                   /\ UnpackU32(SubSeq(packet, 13, 16)) = 0
             /\ xf_pc \in {"frames", "done", "hang"} =>
                   /\ Len(xf_log) = 8
                   /\ \A i \in 1..4 : xf_log[2 * i].kind = "ack"
                   /\ xf_log[1] = Sent(2, <<0, 512, 1024, 0>>)
                   /\ xf_log[3] = Sent(5, <<72, 1, 72, 1074790400>>)
                   /\ xf_log[5] = [kind |-> "send", op |-> 7, fields |-> <<72, 0, 0, 0>>,
                                   n |-> 72, status |-> <<>>]
                   /\ xf_log[7] = Sent(6, <<0, 1074790428>>)
             /\ xf_pc \in {"idle", "loop", "tail"} => xf_seq = 0
             /\ xf_pc = "done" =>
                   /\ xf_seq = FrameCount /\ op_pc \in {"ret", "exit"}
                   /\ file = SubSeq(xf_data, 1, xf_job.info[2])
             /\ (xf_pc = "frames" /\ op_pc \in {"raise", "exit"}) =>
                   /\ raised = "FatalError"
                   /\ op_pc = "exit" => exit_code = 2
             /\ xf_pc = "hang" => (~NoOpening(rx) /\ ~NoClosing(rx)))
    /\ [][(ReadingFlash /\ xf_pc = "frames") =>
             (wire' = wire /\ packet' = packet /\ n_read' = n_read /\ xf_log' = xf_log)]_vars
    /\ [][(ReadingFlash /\ xf_seq' # xf_seq) =>
             LET d == SubSeq(xf_data', Len(xf_data) + 1, Len(xf_data'))
             IN  /\ xf_pc = "frames" /\ xf_seq' = xf_seq + 1
                 /\ Len(d) = 1024 /\ xf_data' = xf_data \o d
                 /\ rx' = <<192>> \o SlipEscape(d) \o <<192>>
                 /\ inbuf' = <<>>]_vars
    /\ [][(ReadingFlash /\ xf_pc = "frames" /\ op_pc = "ret" /\ xf_pc' = "frames"
            /\ rx' # rx /\ (NoOpening(rx') \/ NoClosing(rx'))) =>
             (/\ op_pc' = "raise" /\ raised' = "FatalError"
              /\ xf_seq' = xf_seq /\ xf_data' = xf_data)]_vars

C24_Witness ==
    /\ ReadingFlash /\ xf_pc = "done" /\ xf_seq = 2 /\ xf_job.info = <<4096, 1025>>
    /\ xf_data[1] = 238 /\ xf_data[1025] = 192 /\ xf_data[1026] = 219
    /\ Len(file) = 1025


-----------------------------------------------------------------------------
(* Claim about files cut short, checked under SpecImage *)

\* C27: parsing a file that is cut short at any point (in the file header, in
\* a segment header, in the data of a segment, or before the checksum byte)
\* fails with the typed image-format fatal error: never with an error of
\* another type, and never by returning an image.
C27_CutFileFatal ==
    (img_pc = "loaded" /\ file \in CutFiles) => parsed.status = "FatalError"


-----------------------------------------------------------------------------
(* Claim about the bounds of the erase size, checked under SpecErase *)

\* C28: for every requested size S >= 0 and offset O >= 0 the erase size that
\* flash_begin sends is a multiple of 4096, is never larger than
\* ceil(S / 4096) * 4096, and is 0 exactly when S is 0; so flash_begin(0, 0),
\* as run, flash_id, flash_read, flash_unlock_dio and flash_erase call it,
\* requests no erase.
C28_EraseSizeBounds ==
    (op_name = "flash_begin" /\ op_pc # "idle") =>
        LET S == erase_in[1]
            sent == UnpackU32(SubSeq(packet, 9, 12))
        IN  /\ packet[2] = 2 /\ wire = WriteBuf(packet)
            /\ S >= 0 /\ erase_in[2] >= 0
            /\ sent % 4096 = 0
            /\ sent <= ((S + 4095) \div 4096) * 4096
            /\ sent = 0 <=> S = 0
            /\ erase_in = <<0, 0>> => sent = 0

C28_Witness ==
    /\ op_name = "flash_begin" /\ op_pc = "ret" /\ erase_in = <<0, 0>>
    /\ packet = <<0, 2, 16, 0, 0, 0, 0, 0>> \o Pack4(0, 512, 1024, 0)

====
